---------------------------- MODULE Spec2Model ----------------------------
(***************************************************************************)
(* A model of the superscript compiler front end:                          *)
(*   - the parser-combinator kernel and its Cursor    (src/src/parser.rs)  *)
(*   - the scoped symbol table               (src/src/scoped_hash_map.rs)  *)
(*   - the static type checker                 (src/src/type_checker.rs)   *)
(*   - the expression parser and printer (src/src/main.rs, codegen/js.rs)  *)
(* The specifications share the module: SpecCursor drives a Cursor with    *)
(* arbitrary matchers, SpecMap drives a ScopedHashMap with arbitrary       *)
(* operations, and Spec runs type_check over a program whose function and  *)
(* method bodies are supplied one check at a time, SpecCompiler parses an  *)
(* expression and prints it, and SpecRepetition runs the loop of           *)
(* Repetition::parse one iteration at a time.                              *)
(***************************************************************************)
EXTENDS Integers, Sequences, FiniteSets, TLC

VARIABLES
    s,          \* Cursor.s: the source, a sequence of UTF-8 bytes
    i,          \* Cursor.i: the byte offset
    status,     \* "ready", or "hung" once a call to Cursor.parse never returns
    last,       \* what the last Cursor call was given and what it returned
    scopes,     \* ScopedHashMap.scopes of the map driven by SpecMap
    op,         \* the last ScopedHashMap operation and what it returned
    program,    \* the Program handed to type_check (signatures and tables)
    pc,         \* where type_check is
    fidx,       \* index of the next top-level function to check
    cidx,       \* index of the class being checked (or next to check)
    midx,       \* index of the next method of that class to check
    variables,  \* Context.variables: the checker's scope stack
    checked,    \* the last function or method check: its input and its log
    result,     \* what type_check returned, once pc = "returned"
    source,     \* the text handed to parse_expression, as UTF-8 bytes
    stage,      \* "source", then "parsed", then "generated"
    parsed,     \* what parse_expression returned, or the expression to print
    output,     \* what DisplayExpression wrote, as UTF-8 bytes
    rep         \* a call of Repetition::parse: its matcher, `s`, `sum`, and how far it is

cursorVars == <<s, i, status, last>>
mapVars == <<scopes, op>>
checkerVars == <<program, pc, fidx, cidx, midx, variables, checked, result>>
compilerVars == <<source, stage, parsed, output>>
vars ==
    <<s, i, status, last, scopes, op, program, pc, fidx, cidx, midx, variables, checked, result,
      source, stage, parsed, output, rep>>

(***************************************************************************)
(* Bounds of the model.                                                    *)
(***************************************************************************)
\* longest source, in characters, a Cursor is created over
MaxSrcChars == 2

\* most iterations of the loop of Repetition::parse that are followed
MaxIterations == 6

(***************************************************************************)
(* Option<usize>, with a third outcome for a call that never returns.      *)
(***************************************************************************)
Some(n) == [tag |-> "Some", v |-> n]
None == [tag |-> "None", v |-> 0]
Diverges == [tag |-> "Diverges", v |-> 0]

(***************************************************************************)
(* Strings are sequences of UTF-8 bytes; a char is its code point.         *)
(***************************************************************************)
\* the characters sources and matchers are built from: 'a', 'b', U+00E9
Chars == {97, 98, 233}

len_utf8(c) == IF c < 128 THEN 1 ELSE 2

encode_utf8(c) == IF c < 128 THEN <<c>> ELSE <<192 + (c \div 64), 128 + (c % 64)>>

RECURSIVE Encode(_)
Encode(cs) == IF cs = <<>> THEN <<>> ELSE encode_utf8(Head(cs)) \o Encode(Tail(cs))

\* s.chars().next(): the first character of a byte string, None at its end
chars_next(str) ==
    IF str = <<>> THEN None
    ELSE IF str[1] < 128 THEN Some(str[1])
    ELSE Some((str[1] - 192) * 64 + (str[2] - 128))

\* s.split_at(n)
split_at(str, n) == <<SubSeq(str, 1, n), SubSeq(str, n + 1, Len(str))>>

\* s.starts_with(lit)
starts_with(str, lit) == Len(lit) <= Len(str) /\ SubSeq(str, 1, Len(lit)) = lit

RECURSIVE CharSeqs(_)
CharSeqs(n) ==
    IF n = 0 THEN {<<>>}
    ELSE CharSeqs(n - 1) \cup {<<c>> \o cs : c \in Chars, cs \in {x \in CharSeqs(n - 1) : Len(x) = n - 1}}

\* the sources a Cursor is created over: valid UTF-8 of at most MaxSrcChars characters
Sources == {Encode(cs) : cs \in CharSeqs(MaxSrcChars)}

(***************************************************************************)
(* The matchers (trait Parser).  A matcher is a record: the primitive      *)
(* impls for char, RangeInclusive<char>, FnMut(char) -> bool and &str, and *)
(* the wrappers Optional, Repetition, Not, Peek, Sequence and Choice.      *)
(* A predicate is the set of characters it accepts.                        *)
(***************************************************************************)
CharP(c) == [k |-> "char", c |-> c]
RangeP(lo, hi) == [k |-> "range", lo |-> lo, hi |-> hi]
FnP(accepts) == [k |-> "fn", accepts |-> accepts]
StrP(lit) == [k |-> "str", lit |-> lit]
optional(p) == [k |-> "optional", p |-> p]
repeat(p) == [k |-> "repeat", p |-> p]
not(p) == [k |-> "not", p |-> p]
peek(p) == [k |-> "peek", p |-> p]
sequence0(p0, p1) == [k |-> "sequence", p0 |-> p0, p1 |-> p1]
choice0(p0, p1) == [k |-> "choice", p0 |-> p0, p1 |-> p1]

\* impl Parser for char
char_parse(c, str) ==
    LET n == chars_next(str)
    IN  IF n.tag = "Some" /\ c = n.v THEN Some(len_utf8(n.v)) ELSE None

\* impl Parser for RangeInclusive<char>
range_parse(lo, hi, str) ==
    LET n == chars_next(str)
    IN  IF n.tag = "Some" /\ lo <= n.v /\ n.v <= hi THEN Some(len_utf8(n.v)) ELSE None

\* impl Parser for F: FnMut(char) -> bool
fn_parse(accepts, str) ==
    LET n == chars_next(str)
    IN  IF n.tag = "Some" /\ n.v \in accepts THEN Some(len_utf8(n.v)) ELSE None

\* impl Parser for &str
str_parse(lit, str) == IF starts_with(str, lit) THEN Some(Len(lit)) ELSE None

\* Optional::parse, given what the wrapped matcher returned
Optional_parse(r) ==
    CASE r.tag = "Some" -> Some(r.v)
      [] r.tag = "None" -> Some(0)
      [] OTHER -> Diverges

\* Not::parse, given what the wrapped matcher returned
Not_parse(r) ==
    CASE r.tag = "Some" -> None
      [] r.tag = "None" -> Some(0)
      [] OTHER -> Diverges

\* the bug of a peek that reports the length the wrapped matcher reported
Peek_parse_consuming(r) == r

\* Peek::parse, given what the wrapped matcher returned
Peek_parse(r) ==
    CASE r.tag = "Some" -> Some(0)
      [] r.tag = "None" -> None
      [] OTHER -> Diverges

RECURSIVE Parser_parse(_, _)
RECURSIVE Repetition_parse(_, _, _)

\* Sequence::parse: `?` returns None as soon as one part does not match
Sequence_parse(p0, p1, str) ==
    LET len0 == Parser_parse(p0, str)
    IN  IF len0.tag # "Some" THEN len0
        ELSE LET len1 == Parser_parse(p1, split_at(str, len0.v)[2])
             IN  IF len1.tag # "Some" THEN len1 ELSE Some(len0.v + len1.v)

\* Choice::parse: the first part that matches wins
Choice_parse(p0, p1, str) ==
    LET r0 == Parser_parse(p0, str)
    IN  IF r0.tag # "None" THEN r0 ELSE Parser_parse(p1, str)

\* Repetition::parse: the while-let loop, `sum` carried along.  A match of
\* length 0 leaves `s` as it was, so the loop runs again on the same input
\* and never ends.
Repetition_parse(p, str, sum) ==
    LET r == Parser_parse(p, str)
    IN  CASE r.tag = "None" -> Some(sum)
          [] r.tag = "Diverges" -> Diverges
          [] r.tag = "Some" /\ r.v = 0 -> Diverges
          [] OTHER -> Repetition_parse(p, split_at(str, r.v)[2], sum + r.v)

\* Parser::parse, dispatched on the impl
Parser_parse(p, str) ==
    CASE p.k = "char" -> char_parse(p.c, str)
      [] p.k = "range" -> range_parse(p.lo, p.hi, str)
      [] p.k = "fn" -> fn_parse(p.accepts, str)
      [] p.k = "str" -> str_parse(p.lit, str)
      [] p.k = "optional" -> Optional_parse(Parser_parse(p.p, str))
      [] p.k = "repeat" -> Repetition_parse(p.p, str, 0)
      [] p.k = "not" -> Not_parse(Parser_parse(p.p, str))
      [] p.k = "peek" -> Peek_parse(Parser_parse(p.p, str))
      [] p.k = "sequence" -> Sequence_parse(p.p0, p.p1, str)
      [] p.k = "choice" -> Choice_parse(p.p0, p.p1, str)

\* the string literals handed to matchers and to expect: "", "a", "\u{e9}a"
Literals == {<<>>, Encode(<<97>>), Encode(<<233, 97>>)}

\* the matchers handed to Cursor.parse: the primitive ones, one wrapper
\* around a primitive, sequences and choices of two, and a wrapper around a
\* wrapper, a sequence or a choice
Matchers ==
    LET Primitives ==
            {CharP(97), CharP(233), RangeP(97, 98), FnP(Chars), FnP({98, 233})}
            \cup {StrP(lit) : lit \in Literals}
        Wrapped1 ==
            {optional(p) : p \in Primitives} \cup {repeat(p) : p \in Primitives}
            \cup {not(p) : p \in Primitives} \cup {peek(p) : p \in Primitives}
        Seconds == {FnP(Chars), CharP(98), StrP(<<>>), repeat(FnP({98, 233})), not(FnP({98, 233}))}
        Sequences1 ==
            {sequence0(p0, p1) : p0 \in Primitives, p1 \in Seconds}
            \cup {sequence0(not(p), FnP(Chars)) : p \in Primitives}
        Choices1 == {choice0(p0, p1) : p0 \in Primitives, p1 \in {FnP(Chars), CharP(98), StrP(<<>>)}}
        Wrapped2 ==
            {repeat(p) : p \in Wrapped1 \cup Sequences1 \cup Choices1}
            \cup {optional(p) : p \in Sequences1}
            \cup {not(p) : p \in Choices1} \cup {peek(p) : p \in Choices1}
    IN  Primitives \cup Wrapped1 \cup Sequences1 \cup Choices1 \cup Wrapped2

(***************************************************************************)
(* Repetition::parse, one iteration of its loop at a time.                 *)
(***************************************************************************)
\* Repetition::parse(s) is entered: `let mut sum = 0`, for the matcher of any
\* repeat(m) and any source; `done` counts the iterations made
RepetitionInit ==
    \E p \in Matchers : \E str \in Sources :
        /\ p.k = "repeat"
        /\ rep = [status |-> "looping", m |-> p.p, given |-> str, s |-> str, sum |-> 0, done |-> 0,
                  ret |-> None]

\* a loop that stops at a match of length 0
RepetitionStep_stopping ==
    /\ rep.status = "looping"
    /\ rep.done < MaxIterations
    /\ LET len == Parser_parse(rep.m, rep.s)
       IN  rep' = CASE len.tag = "Some" /\ len.v > 0 ->
                          [rep EXCEPT !.s = split_at(rep.s, len.v)[2], !.sum = @ + len.v,
                                      !.done = @ + 1]
                    [] len.tag \in {"Some", "None"} ->
                          [rep EXCEPT !.status = "returned", !.ret = Some(rep.sum), !.done = @ + 1]
                    [] OTHER -> [rep EXCEPT !.status = "hung"]
    /\ UNCHANGED <<cursorVars, mapVars, checkerVars, compilerVars>>

\* one evaluation of `while let Some(len) = self.0.parse(s)`: the body
\* `s = s.split_at(len).1; sum += len;` when the matcher matched, the return
\* of Some(sum) when it did not; the call of the matcher may itself never
\* return
RepetitionStep ==
    /\ rep.status = "looping"
    /\ rep.done < MaxIterations
    /\ LET len == Parser_parse(rep.m, rep.s)
       IN  rep' = CASE len.tag = "Some" ->
                          [rep EXCEPT !.s = split_at(rep.s, len.v)[2], !.sum = @ + len.v,
                                      !.done = @ + 1]
                    [] len.tag = "None" ->
                          [rep EXCEPT !.status = "returned", !.ret = Some(rep.sum), !.done = @ + 1]
                    [] OTHER -> [rep EXCEPT !.status = "hung"]
    /\ UNCHANGED <<cursorVars, mapVars, checkerVars, compilerVars>>

(***************************************************************************)
(* The Cursor.                                                             *)
(***************************************************************************)
\* Result<_, Error>: Ok(value), or Err(Error { i, msg })
Ok(v) == [tag |-> "Ok", v |-> v, i |-> 0, msg |-> <<>>]
Err(at, msg) == [tag |-> "Err", v |-> <<>>, i |-> at, msg |-> msg]
NoReturn == [tag |-> "NoReturn", v |-> <<>>, i |-> 0, msg |-> <<>>]

Called(call, top, before, reported, ret) ==
    [call |-> call, top |-> top, before |-> before, reported |-> reported, ret |-> ret]

\* Cursor::error
Cursor_error(at) == Err(at, <<>>)

\* the bug of `self.i = i` for `self.i += i`
Cursor_advance_assign(at, r) == IF r.tag = "Some" THEN r.v ELSE at

\* the offset Cursor::parse leaves in self.i when the matcher reported r
Cursor_advance(at, r) == IF r.tag = "Some" THEN at + r.v ELSE at

\* the value Cursor::parse returns when the matcher reported r on rest
Cursor_result(at, rest, r) ==
    CASE r.tag = "Some" -> Ok(split_at(rest, r.v)[1])
      [] r.tag = "None" -> Cursor_error(at)
      [] OTHER -> NoReturn

\* Cursor::expect's mapping of the result of self.parse(lit)
expect_result(lit, r) ==
    CASE r.tag = "Ok" -> Ok(<<>>)
      [] r.tag = "Err" -> Err(r.i, <<"expected ", lit>>)
      [] OTHER -> NoReturn

\* Cursor::new(s), for any source
CursorInit ==
    /\ s \in Sources
    /\ i = 0
    /\ status = "ready"
    /\ last = Called("new", "none", 0, None, NoReturn)

\* Cursor::parse(p)
CursorParse ==
    /\ status = "ready"
    /\ \E p \in Matchers :
        LET rest == split_at(s, i)[2]
            r == Parser_parse(p, rest)
        IN  /\ i' = Cursor_advance(i, r)
            /\ status' = IF r.tag = "Diverges" THEN "hung" ELSE "ready"
            /\ last' = Called("parse", p.k, i, r, Cursor_result(i, rest, r))
    /\ UNCHANGED <<s, mapVars, checkerVars, compilerVars, rep>>

\* Cursor::expect(lit)
CursorExpect ==
    /\ status = "ready"
    /\ \E lit \in Literals :
        LET rest == split_at(s, i)[2]
            r == Parser_parse(StrP(lit), rest)
        IN  /\ i' = Cursor_advance(i, r)
            /\ last' = Called("expect", "str", i, r, expect_result(lit, Cursor_result(i, rest, r)))
    /\ UNCHANGED <<s, status, mapVars, checkerVars, compilerVars, rep>>


(***************************************************************************)
(* ScopedHashMap<K, V>: a Vec of HashMaps.  A HashMap is a function whose  *)
(* domain is the set of keys it binds; Option<V> is Some(v) or None.       *)
(***************************************************************************)
HashMap_new == [k \in {} |-> None]

HashMap_get(m, k) == IF k \in DOMAIN m THEN Some(m[k]) ELSE None

\* HashMap::insert: the map afterwards (the previous value is HashMap_get before)
HashMap_insert(m, k, v) == [x \in DOMAIN m \cup {k} |-> IF x = k THEN v ELSE m[x]]

\* ScopedHashMap::new
ScopedHashMap_new == <<HashMap_new>>

\* ScopedHashMap::push_scope
push_scope(sc) == Append(sc, HashMap_new)

\* a pop_scope that leaves the scope on the stack
pop_scope_kept(sc) == sc

\* ScopedHashMap::pop_scope (Vec::pop of an empty Vec does nothing)
pop_scope(sc) == IF sc = <<>> THEN sc ELSE SubSeq(sc, 1, Len(sc) - 1)

\* ScopedHashMap::get_local
get_local(sc, k) == IF sc = <<>> THEN None ELSE HashMap_get(sc[Len(sc)], k)

\* ScopedHashMap::get: scopes.iter().rev(), from index n down to 1
get(sc, k) ==
    LET RECURSIVE from(_)
        from(n) ==
            IF n = 0 THEN None
            ELSE IF HashMap_get(sc[n], k).tag = "Some" THEN HashMap_get(sc[n], k)
            ELSE from(n - 1)
    IN  from(Len(sc))

\* the bug of first_mut() for last_mut()
insert_target_first(sc) == 1

\* ScopedHashMap::insert: the index of the scope it writes (last_mut)
insert_target(sc) == Len(sc)

\* ScopedHashMap::insert: the scopes afterwards; unwrap() panics on an empty Vec
insert(sc, k, v) == [sc EXCEPT ![insert_target(sc)] = HashMap_insert(sc[insert_target(sc)], k, v)]

\* most scopes the map driven by SpecMap holds
MaxScopes == 3

\* keys and values the map driven by SpecMap is given
MapKeys == {"x", "y"}
MapValues == {"Number", "Boolean"}

Did(name, k, v, ret) == [name |-> name, k |-> k, v |-> v, ret |-> ret]

MapInit ==
    /\ scopes = ScopedHashMap_new
    /\ op = Did("new", "", "", None)

MapPushScope ==
    /\ op.name # "panic"
    /\ Len(scopes) < MaxScopes
    /\ scopes' = push_scope(scopes)
    /\ op' = Did("push_scope", "", "", None)
    /\ UNCHANGED <<cursorVars, checkerVars, compilerVars, rep>>

MapPopScope ==
    /\ op.name # "panic"
    /\ scopes' = pop_scope(scopes)
    /\ op' = Did("pop_scope", "", "", None)
    /\ UNCHANGED <<cursorVars, checkerVars, compilerVars, rep>>

MapInsert ==
    /\ op.name # "panic"
    /\ \E k \in MapKeys, v \in MapValues :
        IF scopes = <<>>
        THEN /\ op' = Did("panic", k, v, None)
             /\ UNCHANGED scopes
        ELSE /\ scopes' = insert(scopes, k, v)
             /\ op' = Did("insert", k, v, HashMap_get(scopes[insert_target(scopes)], k))
    /\ UNCHANGED <<cursorVars, checkerVars, compilerVars, rep>>

MapGetLocal ==
    /\ op.name # "panic"
    /\ \E k \in MapKeys : op' = Did("get_local", k, "", get_local(scopes, k))
    /\ UNCHANGED <<scopes, cursorVars, checkerVars, compilerVars, rep>>

MapGet ==
    /\ op.name # "panic"
    /\ \E k \in MapKeys : op' = Did("get", k, "", get(scopes, k))
    /\ UNCHANGED <<scopes, cursorVars, checkerVars, compilerVars, rep>>


(***************************************************************************)
(* The AST (src/src/ast.rs).  Program::locations maps the address of an    *)
(* expression node to its offset; a node carries its entry of that map in  *)
(* `loc`: Some(offset), or None when the map has no entry for the node.    *)
(***************************************************************************)
TypeNumber == [tag |-> "Number", name |-> ""]
TypeBoolean == [tag |-> "Boolean", name |-> ""]
TypeVoid == [tag |-> "Void", name |-> ""]
TypeClass(name) == [tag |-> "Class", name |-> name]
\* the value of Ok(())
Unit == [tag |-> "()", name |-> ""]

\* #[derive(Debug)] on Type, as the pieces of the text it prints
Debug(ty) == IF ty.tag = "Class" THEN <<"Class(\"", ty.name, "\")">> ELSE <<ty.tag>>

Number(str, loc) == [kind |-> "Number", s |-> str, loc |-> loc]
Name(str, loc) == [kind |-> "Name", s |-> str, loc |-> loc]
ArithmeticExpression(operation, left, right, loc) ==
    [kind |-> "ArithmeticExpression", operation |-> operation, left |-> left, right |-> right, loc |-> loc]
RelationalExpression(operation, left, right, loc) ==
    [kind |-> "RelationalExpression", operation |-> operation, left |-> left, right |-> right, loc |-> loc]
LogicalExpression(operation, left, right, loc) ==
    [kind |-> "LogicalExpression", operation |-> operation, left |-> left, right |-> right, loc |-> loc]
Not(expression, loc) == [kind |-> "Not", expression |-> expression, loc |-> loc]
Assign(name, expression, loc) == [kind |-> "Assign", name |-> name, expression |-> expression, loc |-> loc]
Call(function, arguments, loc) == [kind |-> "Call", function |-> function, arguments |-> arguments, loc |-> loc]
ClassInstantiation(class, arguments, loc) ==
    [kind |-> "ClassInstantiation", class |-> class, arguments |-> arguments, loc |-> loc]
PropertyAccess(object, property, loc) ==
    [kind |-> "PropertyAccess", object |-> object, property |-> property, loc |-> loc]
MethodCall(object, method, arguments, loc) ==
    [kind |-> "MethodCall", object |-> object, method |-> method, arguments |-> arguments, loc |-> loc]
This(loc) == [kind |-> "This", loc |-> loc]

VariableDeclaration(name, expression) == [kind |-> "VariableDeclaration", name |-> name, expression |-> expression]
If(condition, statement, else_statement) ==
    [kind |-> "If", condition |-> condition, statement |-> statement, else_statement |-> else_statement]
While(condition, statement) == [kind |-> "While", condition |-> condition, statement |-> statement]
Return(expression) == [kind |-> "Return", expression |-> expression]
Expression(expression) == [kind |-> "Expression", expression |-> expression]
Block(statements) == [kind |-> "Block", statements |-> statements]

\* struct Function
Function(name, arguments, return_type, statements) ==
    [name |-> name, arguments |-> arguments, return_type |-> return_type, statements |-> statements]
Class(name, fields, methods) == [name |-> name, fields |-> fields, methods |-> methods]
Program(functions, classes) == [functions |-> functions, classes |-> classes]

\* the first of items with the given name (the for loops of ast.rs)
RECURSIVE find_named(_, _, _)
find_named(items, name, n) ==
    IF n > Len(items) THEN None
    ELSE IF items[n].name = name THEN Some(items[n])
    ELSE find_named(items, name, n + 1)

\* Program::get_function
get_function(prog, name) == find_named(prog.functions, name, 1)

\* Program::get_class
get_class(prog, name) == find_named(prog.classes, name, 1)

\* Class::get_method
get_method(class, name) == find_named(class.methods, name, 1)

\* Class::get_field: the loop over the fields, from the n-th on
get_field(class, name) ==
    LET RECURSIVE from(_)
        from(n) ==
            IF n > Len(class.fields) THEN None
            ELSE IF class.fields[n][1] = name THEN Some(class.fields[n][2])
            ELSE from(n + 1)
    IN  from(1)

(***************************************************************************)
(* The type checker (src/src/type_checker.rs).  Context.program is `prog`, *)
(* Context.variables is `vs`.  A check   returns its Result together with  *)
(* a log of what it did, in order; a statement check also returns the      *)
(* scope stack it leaves behind (`?` returns early, leaving it as it is).  *)
(***************************************************************************)
Checked(res, log) == [res |-> res, log |-> log]
After(res, vs, log) == [res |-> res, vars |-> vs, log |-> log]

\* log entries
Entered(expression, vs) == [ev |-> "check_expression", e |-> expression, vars |-> vs]
\* inside counts the log entries made between the call and its return
Returned(statement, before, after, res, inside) ==
    [ev |-> "check_statement", st |-> statement, before |-> before, after |-> after, res |-> res,
     inside |-> inside]

\* fn error: the Error located where the location map puts the expression
\* fn error with `.unwrap()` on the entry of the location map
error_unwrap(expression, msg) ==
    IF expression.loc.tag = "Some" THEN Err(expression.loc.v, msg)
    ELSE [tag |-> "Panic", v |-> Unit, i |-> 0,
          msg |-> <<"called unwrap on a None value">>]

error(expression, msg) == Err(IF expression.loc.tag = "Some" THEN expression.loc.v ELSE 0, msg)

RECURSIVE check_expression(_, _, _)

\* a result under the log of what was checked before it
Prefixed(log, r) == Checked(r.res, log \o r.log)

\* `?` on the result a, then Ok(ty)
Typed(a, ty) == IF a.res.tag = "Err" THEN a ELSE Checked(Ok(ty), a.log)

\* assert_type without the comparison of the two types
assert_type_any(vs, prog, expression, expected_ty) ==
    Typed(check_expression(vs, prog, expression), Unit)

\* fn assert_type
assert_type(vs, prog, expression, expected_ty) ==
    LET compared(actual) ==
            IF actual.res.tag = "Err" THEN actual
            ELSE IF actual.res.v = expected_ty THEN Checked(Ok(Unit), actual.log)
            ELSE Checked(error(expression, <<"type mismatch: expected a ">> \o Debug(expected_ty)
                                            \o <<" but found a ">> \o Debug(actual.res.v)),
                         actual.log)
    IN  compared(check_expression(vs, prog, expression))

\* check_expression, the arms of the three binary forms: the right operand is
\* checked when the left one passed
check_binary(vs, prog, expression, operand_ty, result_ty) ==
    LET both(l, r) == IF l.res.tag = "Err" THEN l ELSE Prefixed(l.log, Typed(r, result_ty))
    IN  both(assert_type(vs, prog, expression.left, operand_ty),
             assert_type(vs, prog, expression.right, operand_ty))

\* the test of check_arguments without the case of too few arguments
arity_exceeds(arguments, f) == Len(arguments) > Len(f.arguments)

\* check_arguments: the test `arguments.len() != f.arguments.len()`
arity_differs(arguments, f) == Len(arguments) # Len(f.arguments)

\* check_arguments: the loop over arguments.iter().zip(argument_types), from
\* its n-th turn on
RECURSIVE check_arguments_from(_, _, _, _, _)
check_arguments_from(vs, prog, f, arguments, n) ==
    LET turn(actual, rest, expected_ty) ==
            IF actual.res.tag = "Err" THEN actual
            ELSE IF actual.res.v # expected_ty
            THEN Checked(error(arguments[n], <<"invalid argument type: expected ">>
                                \o Debug(expected_ty) \o <<" but found ">> \o Debug(actual.res.v)),
                         actual.log)
            ELSE Prefixed(actual.log, rest)
    IN  IF n > Len(arguments) THEN Checked(Ok(Unit), <<>>)
        ELSE turn(check_expression(vs, prog, arguments[n]),
                  check_arguments_from(vs, prog, f, arguments, n + 1),
                  f.arguments[n][2])

\* fn check_arguments
check_arguments(vs, prog, expression, f, arguments) ==
    IF arity_differs(arguments, f)
    THEN Checked(error(expression, <<"invalid number of arguments">>), <<>>)
    ELSE check_arguments_from(vs, prog, f, arguments, 1)

\* check_expression, arm Name
check_Name(vs, expression) ==
    LET ty == get(vs, expression.s)
    IN  IF ty.tag = "None"
        THEN Checked(error(expression, <<"undefined variable \"", expression.s, "\"">>), <<>>)
        ELSE Checked(Ok(ty.v), <<>>)

\* check_expression, arm Assign
check_Assign(vs, prog, e) ==
    IF e.name.kind = "Name"
    THEN LET ty == get(vs, e.name.s)
         IN  IF ty.tag = "Some"
             THEN Typed(assert_type(vs, prog, e.expression, ty.v), ty.v)
             ELSE Checked(error(e.name, <<"undefined variable \"", e.name.s, "\"">>), <<>>)
    ELSE Checked(error(e.name, <<"left hand of an assignment must be a name">>), <<>>)

\* the call's errors located at the call instead of its callee
call_itself(e) == e

\* check_expression, arm Call: the errors of the call are located at
call_anchor(e) == e.function

\* check_expression, arm Call
check_Call(vs, prog, e) ==
    IF e.function.kind = "Name"
    THEN LET f == get_function(prog, e.function.s)
         IN  IF f.tag = "Some"
             THEN Typed(check_arguments(vs, prog, call_anchor(e), f.v, e.arguments), f.v.return_type)
             ELSE Checked(error(call_anchor(e), <<"undefined function \"", e.function.s, "\"">>), <<>>)
    ELSE Checked(error(call_anchor(e), <<"left hand of a call must be a name">>), <<>>)

\* check_expression, arm ClassInstantiation
instantiate_unchecked(vs, prog, e) ==
    IF get_class(prog, e.class).tag = "Some"
    THEN Checked(Ok(TypeClass(e.class)), <<>>)
    ELSE Checked(error(e, <<"undefined class \"", e.class, "\"">>), <<>>)

check_ClassInstantiation(vs, prog, e) ==
    LET c == get_class(prog, e.class)
    IN  IF c.tag = "Some"
        THEN LET f == get_method(c.v, "constructor")
             IN  IF f.tag = "Some"
                 THEN Typed(check_arguments(vs, prog, e, f.v, e.arguments), TypeClass(e.class))
                 ELSE IF Len(e.arguments) # 0
                 THEN Checked(error(e, <<"invalid number of arguments">>), <<>>)
                 ELSE Checked(Ok(TypeClass(e.class)), <<>>)
        ELSE Checked(error(e, <<"undefined class \"", e.class, "\"">>), <<>>)

\* check_expression, arms PropertyAccess and MethodCall: the class of the
\* object, from `let object_type = check_expression(context, object)?` on
object_class(prog, e, object) ==
    IF object.res.tag = "Err" THEN object
    ELSE IF object.res.v.tag = "Class"
    THEN LET c == get_class(prog, object.res.v.name)
         IN  IF c.tag = "Some" THEN Checked(Ok(c.v), object.log)
             ELSE Checked(error(e, <<"undefined class \"", object.res.v.name, "\"">>), object.log)
    ELSE Checked(error(e, <<"trying to access a property on an expression that is not a class">>), object.log)

\* check_expression, arm PropertyAccess
check_PropertyAccess(vs, prog, e) ==
    LET field_of(c) ==
            IF c.res.tag = "Err" THEN c
            ELSE LET ty == get_field(c.res.v, e.property)
                 IN  IF ty.tag = "Some" THEN Checked(Ok(ty.v), c.log)
                     ELSE Checked(error(e, <<"class \"", c.res.v.name, "\" does not have a field \"",
                                             e.property, "\"">>), c.log)
    IN  field_of(object_class(prog, e, check_expression(vs, prog, e.object)))

\* check_expression, arm MethodCall
check_MethodCall(vs, prog, e) ==
    LET method_of(c) ==
            IF c.res.tag = "Err" THEN c
            ELSE LET f == get_method(c.res.v, e.method)
                 IN  IF f.tag = "Some"
                     THEN Prefixed(c.log, Typed(check_arguments(vs, prog, e, f.v, e.arguments),
                                                f.v.return_type))
                     ELSE Checked(error(e, <<"class \"", c.res.v.name, "\" does not have a method \"",
                                             e.method, "\"">>), c.log)
    IN  method_of(object_class(prog, e, check_expression(vs, prog, e.object)))

\* check_expression, arm This
check_This(vs, e) ==
    LET ty == get(vs, "this")
    IN  IF ty.tag = "None"
        THEN Checked(error(e, <<"this is not available outside of a method">>), <<>>)
        ELSE Checked(Ok(ty.v), <<>>)

\* check_expression, arm Not
check_Not(vs, prog, e) == Typed(assert_type(vs, prog, e.expression, TypeBoolean), TypeBoolean)

\* fn check_expression; the log starts with the node it was called on and the
\* scopes it was called with
check_expression(vs, prog, e) ==
    Prefixed(<<Entered(e, vs)>>,
             CASE e.kind = "Number" -> Checked(Ok(TypeNumber), <<>>)
               [] e.kind = "Name" -> check_Name(vs, e)
               [] e.kind = "ArithmeticExpression" -> check_binary(vs, prog, e, TypeNumber, TypeNumber)
               [] e.kind = "RelationalExpression" -> check_binary(vs, prog, e, TypeNumber, TypeBoolean)
               [] e.kind = "LogicalExpression" -> check_binary(vs, prog, e, TypeBoolean, TypeBoolean)
               [] e.kind = "Not" -> check_Not(vs, prog, e)
               [] e.kind = "Assign" -> check_Assign(vs, prog, e)
               [] e.kind = "Call" -> check_Call(vs, prog, e)
               [] e.kind = "ClassInstantiation" -> check_ClassInstantiation(vs, prog, e)
               [] e.kind = "PropertyAccess" -> check_PropertyAccess(vs, prog, e)
               [] e.kind = "MethodCall" -> check_MethodCall(vs, prog, e)
               [] e.kind = "This" -> check_This(vs, e))

RECURSIVE check_statement(_, _, _)

\* a statement result under the log of what was checked before it
PrefixedAfter(log, r) == After(r.res, r.vars, log \o r.log)

\* the loops `for statement in statements { check_statement(context, statement)?; }`
\* from the n-th statement on
RECURSIVE check_statements(_, _, _, _)
check_statements(vs, prog, statements, n) ==
    LET next(r) ==
            IF r.res.tag = "Err" THEN r
            ELSE PrefixedAfter(r.log, check_statements(r.vars, prog, statements, n + 1))
    IN  IF n > Len(statements) THEN After(Ok(Unit), vs, <<>>)
        ELSE next(check_statement(vs, prog, statements[n]))

\* the test of VariableDeclaration with a lookup through all the scopes
already_defined_anywhere(vs, name) == get(vs, name).tag = "Some"

\* check_statement: the test `if let Some(_) = context.variables.get_local(name)`
already_defined(vs, name) == get_local(vs, name).tag = "Some"

\* check_statement, arm VariableDeclaration
check_VariableDeclaration(vs, prog, st) ==
    LET declare(ty) ==
            IF ty.res.tag = "Err" THEN After(ty.res, vs, ty.log)
            ELSE After(Ok(Unit), insert(vs, st.name, ty.res.v), ty.log)
    IN  IF already_defined(vs, st.name)
        THEN After(error(st.expression, <<"variable \"", st.name, "\" already defined">>), vs, <<>>)
        ELSE declare(check_expression(vs, prog, st.expression))

\* check_statement, arms If and While: `assert_type(condition, Boolean)?`,
\* then what follows it
check_under(c, vs, following) ==
    IF c.res.tag = "Err" THEN After(c.res, vs, c.log) ELSE PrefixedAfter(c.log, following)

\* check_statement, arm If
check_If(vs, prog, st) ==
    LET else_after(a) ==
            IF a.res.tag = "Err" \/ st.else_statement.tag = "None" THEN a
            ELSE PrefixedAfter(a.log, check_statement(a.vars, prog, st.else_statement.v))
    IN  check_under(assert_type(vs, prog, st.condition, TypeBoolean), vs,
                    else_after(check_statement(vs, prog, st.statement)))

\* check_statement, arm While
check_While(vs, prog, st) ==
    check_under(assert_type(vs, prog, st.condition, TypeBoolean), vs,
                check_statement(vs, prog, st.statement))

\* check_statement, arms Return and Expression: `check_expression(..)?;`
check_discarded(vs, prog, st) ==
    LET discard(r) == After(IF r.res.tag = "Err" THEN r.res ELSE Ok(Unit), vs, r.log)
    IN  discard(check_expression(vs, prog, st.expression))

\* leaving a scope with pop_scope on the error path too
leave_scope_always(r) == After(r.res, pop_scope(r.vars), r.log)

\* Block and check_function: the `?` of the loop returns the error before
\* pop_scope is called
leave_scope(r) ==
    IF r.res.tag = "Err" THEN r ELSE After(Ok(Unit), pop_scope(r.vars), r.log)

\* a Block checked in the scope it stands in
check_Block_unscoped(vs, prog, st) == check_statements(vs, prog, st.statements, 1)

\* check_statement, arm Block
check_Block(vs, prog, st) == leave_scope(check_statements(push_scope(vs), prog, st.statements, 1))

\* fn check_statement; the log ends with what the call was given and what it
\* left
check_statement(vs, prog, st) ==
    LET returned(r) ==
            After(r.res, r.vars, r.log \o <<Returned(st, vs, r.vars, r.res, Len(r.log))>>)
    IN  returned(CASE st.kind = "VariableDeclaration" -> check_VariableDeclaration(vs, prog, st)
                   [] st.kind = "If" -> check_If(vs, prog, st)
                   [] st.kind = "While" -> check_While(vs, prog, st)
                   [] st.kind = "Return" -> check_discarded(vs, prog, st)
                   [] st.kind = "Expression" -> check_discarded(vs, prog, st)
                   [] st.kind = "Block" -> check_Block(vs, prog, st))

\* check_function: `for (name, ty) in &function.arguments { insert(name, ty) }`
RECURSIVE insert_arguments(_, _, _)
insert_arguments(vs, arguments, n) ==
    IF n > Len(arguments) THEN vs
    ELSE insert_arguments(insert(vs, arguments[n][1], arguments[n][2]), arguments, n + 1)

\* fn check_function
check_function(vs, prog, function) ==
    leave_scope(check_statements(insert_arguments(push_scope(vs), function.arguments, 1),
                                 prog, function.statements, 1))

(***************************************************************************)
(* The programs type_check is given.  A program is drawn with the          *)
(* signatures of its functions, classes and methods; the statements of a   *)
(* function or method are drawn when it is checked.  Offsets stand for the *)
(* byte offsets the parser recorded: an operand sits at o, the operator of *)
(* a binary node two bytes on, the right operand four bytes on.            *)
(***************************************************************************)
\* most arguments of a call, and most parameters of a function
MaxArgs == 2
\* most statements of a body made of the short statements
MaxStmts == 2

Leaves(o) == {Number("1", Some(o)), Name("x", Some(o)), Name("y", Some(o))}

\* `1 < 2`
Lt(o) == RelationalExpression("LessThan", Number("1", Some(o)), Number("2", Some(o + 4)), Some(o + 2))

\* what is assigned, declared and passed
Values(o) ==
    Leaves(o)
    \cup {Name("true", Some(o)), Lt(o),
          ArithmeticExpression("Add", Name("y", Some(o)), Number("1", Some(o + 4)), Some(o + 2))}

\* the argument lists of up to MaxArgs arguments
Arguments(o) ==
    LET RECURSIVE ArgLists(_, _)
        ArgLists(n, at) ==
            IF n = 0 THEN {<<>>}
            ELSE {<<a>> \o rest : a \in {Number("1", Some(at)), Name("y", Some(at))},
                                   rest \in ArgLists(n - 1, at + 3)}
    IN  UNION {ArgLists(n, o) : n \in 0..MaxArgs}

\* the expressions of expression statements; the location map has no entry
\* for the nodes located None
Expressions(o) ==
    Values(o) \cup {This(Some(o)), Name("z", None), Call(Name("g", None), <<>>, None)}
    \cup {ArithmeticExpression("Add", l, r, Some(o + 2)) : l \in Leaves(o), r \in Leaves(o + 4)}
    \cup {RelationalExpression("LessThan", l, r, Some(o + 2)) :
            l \in {Number("1", Some(o)), Name("x", Some(o))},
            r \in {Number("2", Some(o + 4)), Name("x", Some(o + 4))}}
    \cup {LogicalExpression("And", l, r, Some(o + 6)) :
            l \in {Name("y", Some(o)), Lt(o)}, r \in {Name("y", Some(o + 9)), Number("1", Some(o + 9))}}
    \cup {Not(e, Some(o)) : e \in {Name("y", Some(o + 1)), Number("1", Some(o + 1)), Lt(o + 1)}}
    \cup {Assign(target, v, Some(o + 2)) :
            target \in {Name("x", Some(o)), Name("y", Some(o)), Number("1", Some(o))}, v \in Values(o + 4)}
    \cup {Call(callee, args, Some(o + 1)) :
            callee \in {Name("f", Some(o)), Name("g", Some(o)), Name("x", Some(o)), Number("1", Some(o))},
            args \in Arguments(o + 2)}
    \cup {ClassInstantiation(class, args, Some(o)) : class \in {"C", "D"}, args \in Arguments(o + 6)}
    \cup {PropertyAccess(object, property, Some(o + 4)) :
            object \in {This(Some(o)), Name("x", Some(o))}, property \in {"p", "q"}}
    \cup {MethodCall(object, method, args, Some(o + 4)) :
            object \in {This(Some(o)), Name("x", Some(o))}, method \in {"m", "n"}, args \in Arguments(o + 7)}

\* the statements of one-statement bodies; Nested are the statements inside
\* blocks, ifs and whiles
Statements(o) ==
    LET Inner(at) ==
            {VariableDeclaration("x", Number("1", Some(at + 8))), VariableDeclaration("y", Lt(at + 8)),
             Expression(Name("x", Some(at))), Expression(Name("z", Some(at)))}
        Nested(at) == Inner(at) \cup {Block(<<st>>) : st \in Inner(at + 2)}
        Conditions(at) == {Lt(at), Number("1", Some(at)), Name("y", Some(at))}
    IN  {Expression(e) : e \in Expressions(o)}
        \cup {VariableDeclaration(name, v) : name \in {"x", "y"}, v \in Values(o + 8)}
        \cup {Return(e) : e \in Leaves(o + 7)}
        \cup {Block(<<>>)}
        \cup {Block(<<st>>) : st \in Nested(o + 2)}
        \cup {Block(<<st1, st2>>) : st1 \in Nested(o + 2), st2 \in Nested(o + 22)}
        \cup {If(c, st, else_statement) :
                c \in Conditions(o + 4), st \in Nested(o + 14),
                else_statement \in
                    {None, Some(VariableDeclaration("y", Number("1", Some(o + 48)))),
                     Some(Block(<<Expression(Name("z", Some(o + 42)))>>))}}
        \cup {While(c, st) : c \in Conditions(o + 7), st \in Nested(o + 17)}

identifier_start_char ==
    {"a", "b", "c", "d", "e", "f", "g", "h", "i", "j", "k", "l", "m",
     "n", "o", "p", "q", "r", "s", "t", "u", "v", "w", "x", "y", "z",
     "A", "B", "C", "D", "E", "F", "G", "H", "I", "J", "K", "L", "M",
     "N", "O", "P", "Q", "R", "S", "T", "U", "V", "W", "X", "Y", "Z", "_"}

\* a primary that reads every token as a number
primary_number(first, text, location) == Number(text, Some(location))

\* parse_expression, the primary that is no parenthesis: a token whose first
\* character starts an identifier is a Name, and there is no other literal
\* than the digit run; the node is marked with the offset the token starts at
primary(first, text, location) ==
    IF first \in identifier_start_char THEN Name(text, Some(location))
    ELSE Number(text, Some(location))

\* the statements of `function main() { let x = 1; x = true; }`, the tokens
\* at their offsets in that text
Scenario3 ==
    <<VariableDeclaration("x", primary("1", "1", 26)),
      Expression(Assign(primary("x", "x", 29), primary("t", "true", 33), Some(31)))>>

\* the statements longer bodies are made of
ShortStatements ==
    {Scenario3[1], Scenario3[2],
     Expression(Assign(Name("x", Some(29)), Lt(33), Some(31))),
     VariableDeclaration("f", Number("1", Some(26))),
     Expression(Call(Name("f", Some(29)), <<Name("x", Some(31))>>, Some(30))),
     VariableDeclaration("x", ClassInstantiation("C", <<>>, Some(26))),
     Expression(PropertyAccess(Name("x", Some(29)), "p", Some(30))),
     Block(<<VariableDeclaration("x", Lt(28))>>),
     If(Lt(22), VariableDeclaration("x", Number("1", Some(36))), None),
     If(Lt(22), Block(<<>>), Some(VariableDeclaration("x", Number("1", Some(44))))),
     While(Lt(25), VariableDeclaration("x", Number("1", Some(39)))),
     VariableDeclaration("this", Number("1", Some(26))),
     Expression(This(Some(29)))}

\* the bodies of the functions and methods checked: one statement, or up to
\* MaxStmts of the short statements
Bodies ==
    LET RECURSIVE ShortBodies(_)
        ShortBodies(n) ==
            IF n = 0 THEN {<<>>}
            ELSE {<<st>> \o rest : st \in ShortStatements, rest \in ShortBodies(n - 1)}
    IN  {<<st>> : st \in Statements(20)} \cup UNION {ShortBodies(n) : n \in 0..MaxStmts}

\* n parameters of distinct names: x: number, y: boolean, z: number, ...
RECURSIVE Params(_)
Params(n) ==
    IF n = 0 THEN <<>>
    ELSE Append(Params(n - 1), <<(<<"x", "y", "z", "u", "v", "w">>)[n],
                                 IF n % 2 = 1 THEN TypeNumber ELSE TypeBoolean>>)

\* the parameter lists of f; the last one names x twice
ParamLists ==
    {Params(n) : n \in 0..MaxArgs} \cup {<<<<"x", TypeNumber>>, <<"x", TypeBoolean>>>>}

Programs ==
    {Program(<<>>, <<>>)}
    \cup {Program(<<Function("f", ps, TypeNumber, <<>>)>>, <<>>) : ps \in ParamLists}
    \cup {Program(<<Function("main", <<>>, TypeVoid, <<>>), Function("f", Params(1), TypeBoolean, <<>>)>>, <<>>)}
    \cup {Program(<<Function("f", Params(1), TypeNumber, <<>>), Function("f", <<>>, TypeBoolean, <<>>)>>, <<>>)}
    \cup {Program(<<Function("main", <<>>, TypeVoid, <<>>)>>,
                  <<Class("C", <<<<"p", TypeNumber>>>>, <<Function("m", Params(1), TypeNumber, <<>>)>>)>>)}
    \cup {Program(<<>>, <<Class("C", <<<<"p", TypeBoolean>>>>,
                                <<Function("constructor", Params(1), TypeVoid, <<>>),
                                  Function("m", <<>>, TypeClass("C"), <<>>)>>)>>)}
    \cup {Program(<<Function("f", <<>>, TypeVoid, <<>>)>>,
                  <<Class("D", <<>>, <<Function("n", <<>>, TypeVoid, <<>>)>>),
                    Class("C", <<>>, <<Function("constructor", Params(2), TypeVoid, <<>>)>>)>>)}

(***************************************************************************)
(* The expression parser of main.rs.  Its Cursor wraps the Cursor of       *)
(* parser.rs: a call is given the source and the offset and returns a      *)
(* Result whose i is the offset the call leaves the cursor at.  The        *)
(* location map is the loc field of the nodes: mark_location(e, n) is the  *)
(* node e built with Some(n).                                              *)
(***************************************************************************)
\* the printable ASCII characters, U+0020 to U+007E, in order (the grave
\* accent, which no text here holds, by its name)
Printable ==
    <<" ", "!", "\"", "#", "$", "%", "&", "'", "(", ")", "*", "+", ",", "-", ".", "/",
      "0", "1", "2", "3", "4", "5", "6", "7", "8", "9", ":", ";", "<", "=", ">", "?",
      "@", "A", "B", "C", "D", "E", "F", "G", "H", "I", "J", "K", "L", "M", "N", "O",
      "P", "Q", "R", "S", "T", "U", "V", "W", "X", "Y", "Z", "[", "\\", "]", "^", "_",
      "U+0060", "a", "b", "c", "d", "e", "f", "g", "h", "i", "j", "k", "l", "m", "n", "o",
      "p", "q", "r", "s", "t", "u", "v", "w", "x", "y", "z", "{", "|", "}", "~">>

\* a char literal as its code point, and a str literal as its bytes
CodePoints == [c \in {Printable[k] : k \in 1..Len(Printable)} |->
                    CHOOSE k \in 32..126 : Printable[k - 31] = c]

CodePoint(c) == CodePoints[c]

Lit(cs) == [k \in 1..Len(cs) |-> CodePoint(cs[k])]

\* Ok(v), the cursor being left at offset at
Parsed(v, at) == [tag |-> "Ok", v |-> v, i |-> at, msg |-> <<>>]

\* Cursor::parse of main.rs, which is Cursor::parse of parser.rs
Cursor_parse(src, at, p) ==
    LET returned(rest, r) == [Cursor_result(at, rest, r) EXCEPT !.i = Cursor_advance(at, r)]
    IN  returned(split_at(src, at)[2], Parser_parse(p, split_at(src, at)[2]))

\* Cursor::expect of main.rs
Cursor_expect(src, at, lit) ==
    LET returned(r) == [expect_result(lit, r) EXCEPT !.i = r.i]
    IN  returned(Cursor_parse(src, at, StrP(lit)))

\* char::is_whitespace, on the characters of one byte
is_whitespace == FnP({9, 10, 11, 12, 13, 32})

\* fn any_char, on the characters of one and two bytes
any_char == FnP(0..2047)

\* fn skip_comments, from its loop on
RECURSIVE skip_comments_loop(_, _)
skip_comments_loop(src, at) ==
    LET around(ws) == IF ws.tag = "Err" THEN ws ELSE skip_comments_loop(src, ws.i)
        again(r) ==
            IF r.tag = "Err" THEN r ELSE around(Cursor_parse(src, r.i, repeat(is_whitespace)))
        closed(inside) ==
            IF inside.tag = "Err" THEN inside
            ELSE again(Cursor_expect(src, inside.i, Lit(<<"*", "/">>)))
    IN  IF Cursor_parse(src, at, StrP(Lit(<<"/", "*">>))).tag = "Ok"
        THEN closed(Cursor_parse(src, at + 2,
                                 repeat(sequence0(not(StrP(Lit(<<"*", "/">>))), any_char))))
        ELSE IF Cursor_parse(src, at, StrP(Lit(<<"/", "/">>))).tag = "Ok"
        THEN again(Cursor_parse(src, at + 2, repeat(sequence0(not(CharP(10)), any_char))))
        ELSE Parsed(Unit, at)

\* fn skip_comments
skip_comments(src, at) ==
    LET loop(ws) == IF ws.tag = "Err" THEN ws ELSE skip_comments_loop(src, ws.i)
    IN  loop(Cursor_parse(src, at, repeat(is_whitespace)))

\* `let x = r?; skip_comments(cursor)?;`: x, the cursor past the comments
Skipped(src, r) ==
    LET past(sk) == IF sk.tag = "Err" THEN sk ELSE Parsed(r.v, sk.i)
    IN  IF r.tag = "Err" THEN r ELSE past(skip_comments(src, r.i))

\* struct BinaryOperator, the function being named
BinaryOperator(spelling, function) == [spelling |-> Lit(spelling), function |-> function]

\* const OPERATORS
OPERATORS ==
    <<[level |-> "BinaryRightToLeft", operators |-> <<BinaryOperator(<<"=">>, "assign")>>],
      [level |-> "BinaryLeftToRight",
       operators |-> <<BinaryOperator(<<"=", "=">>, "equal"),
                       BinaryOperator(<<"!", "=">>, "not_equal")>>],
      [level |-> "BinaryLeftToRight",
       operators |-> <<BinaryOperator(<<"<", "=">>, "less_than_or_equal"),
                       BinaryOperator(<<"<">>, "less_than"),
                       BinaryOperator(<<">", "=">>, "greater_than"),
                       BinaryOperator(<<">">>, "greater_than_or_equal")>>],
      [level |-> "BinaryLeftToRight",
       operators |-> <<BinaryOperator(<<"+">>, "add"), BinaryOperator(<<"-">>, "subtract")>>],
      [level |-> "BinaryLeftToRight",
       operators |-> <<BinaryOperator(<<"*">>, "multiply"), BinaryOperator(<<"/">>, "divide"),
                       BinaryOperator(<<"%">>, "remainder")>>]>>

\* the functions of impl Expression the table names, and mark_location on
\* what they return
marked(function, left, right, location) ==
    CASE function = "add" -> ArithmeticExpression("Add", left, right, Some(location))
      [] function = "subtract" -> ArithmeticExpression("Subtract", left, right, Some(location))
      [] function = "multiply" -> ArithmeticExpression("Multiply", left, right, Some(location))
      [] function = "divide" -> ArithmeticExpression("Divide", left, right, Some(location))
      [] function = "remainder" -> ArithmeticExpression("Remainder", left, right, Some(location))
      [] function = "equal" -> RelationalExpression("Equal", left, right, Some(location))
      [] function = "not_equal" -> RelationalExpression("NotEqual", left, right, Some(location))
      [] function = "less_than" -> RelationalExpression("LessThan", left, right, Some(location))
      [] function = "less_than_or_equal" ->
            RelationalExpression("LessThanOrEqual", left, right, Some(location))
      [] function = "greater_than" ->
            RelationalExpression("GreaterThan", left, right, Some(location))
      [] function = "greater_than_or_equal" ->
            RelationalExpression("GreaterThanOrEqual", left, right, Some(location))
      [] function = "and" -> LogicalExpression("And", left, right, Some(location))
      [] function = "or" -> LogicalExpression("Or", left, right, Some(location))
      [] function = "not" -> Not(left, Some(location))
      [] function = "assign" -> Assign(left, right, Some(location))

\* the location of an operator, taken after the operator was consumed
operator_location_after(at, operator) == at + Len(operator.spelling)

\* parse_binary_operator, parse_unary_operator: `let location =
\* cursor.get_location()` before the loop over the operators
operator_location(at, operator) == at

\* parse_binary_operator, parse_unary_operator: the first operator of the
\* level, from the n-th on, that the cursor matches
RECURSIVE parse_operator(_, _, _, _)
parse_operator(src, at, operators, n) ==
    IF n > Len(operators) THEN None
    ELSE IF Cursor_parse(src, at, StrP(operators[n].spelling)).tag = "Ok"
    THEN [tag |-> "Some", v |-> [function |-> operators[n].function,
                               location |-> operator_location(at, operators[n]),
                               i |-> at + Len(operators[n].spelling)]]
    ELSE parse_operator(src, at, operators, n + 1)

RECURSIVE parse_expression(_, _, _)

\* parse_expression, arm BinaryLeftToRight: the while-let loop, left being
\* the accumulator and the offset after it
RECURSIVE left_to_right(_, _, _, _)
left_to_right(src, level, operators, left) ==
    LET folded(o, right) ==
            IF right.tag = "Err" THEN right
            ELSE left_to_right(src, level, operators,
                    Parsed(marked(o.function, left.v, right.v, o.location), right.i))
        operand(o, sk) ==
            IF sk.tag = "Err" THEN sk
            ELSE folded(o, Skipped(src, parse_expression(src, sk.i, level + 1)))
        fold(o) == IF o.tag = "None" THEN left ELSE operand(o.v, skip_comments(src, o.v.i))
    IN  fold(parse_operator(src, left.i, operators, 1))

\* parse_expression, arm BinaryRightToLeft, from the operator on
right_to_left(src, level, operators, left) ==
    LET folded(o, right) ==
            IF right.tag = "Err" THEN right
            ELSE Parsed(marked(o.function, left.v, right.v, o.location), right.i)
        operand(o, sk) ==
            IF sk.tag = "Err" THEN sk ELSE folded(o, parse_expression(src, sk.i, level))
        fold(o) == IF o.tag = "None" THEN left ELSE operand(o.v, skip_comments(src, o.v.i))
    IN  fold(parse_operator(src, left.i, operators, 1))

\* parse_expression, arm UnaryPrefix
unary_prefix(src, at, level, operators) ==
    LET applied(o, e) ==
            IF e.tag = "Err" THEN e ELSE Parsed(marked(o.function, e.v, e.v, o.location), e.i)
        operand(o, sk) ==
            IF sk.tag = "Err" THEN sk ELSE applied(o, parse_expression(src, sk.i, level))
        apply(o) ==
            IF o.tag = "None" THEN parse_expression(src, at, level + 1)
            ELSE operand(o.v, skip_comments(src, o.v.i))
    IN  apply(parse_operator(src, at, operators, 1))

\* parse_expression, arm UnaryPostfix: the while-let loop
RECURSIVE unary_postfix(_, _, _)
unary_postfix(src, operators, expression) ==
    LET applied(o, sk) ==
            IF sk.tag = "Err" THEN sk
            ELSE unary_postfix(src, operators,
                    Parsed(marked(o.function, expression.v, expression.v, o.location), sk.i))
        apply(o) == IF o.tag = "None" THEN expression ELSE applied(o.v, skip_comments(src, o.v.i))
    IN  apply(parse_operator(src, expression.i, operators, 1))

identifier_char == FnP({CodePoint(c) : c \in identifier_start_char} \cup 48..57)

\* fn parse_identifier
parse_identifier(src, at) ==
    Cursor_parse(src, at, sequence0(FnP({CodePoint(c) : c \in identifier_start_char}),
                                    repeat(identifier_char)))

\* fn parse_number
parse_number(src, at) == Cursor_parse(src, at, repeat(RangeP(48, 57)))

\* parse_expression, past the last level: the expression before the call
\* suffixes
parse_primary(src, at) ==
    LET closed(e, close) == IF close.tag = "Err" THEN close ELSE Parsed(e.v, close.i)
        inner(e) == IF e.tag = "Err" THEN e ELSE closed(e, Cursor_expect(src, e.i, Lit(<<")">>)))
        opened(sk) ==
            IF sk.tag = "Err" THEN sk ELSE inner(Skipped(src, parse_expression(src, sk.i, 0)))
        token(x) ==
            IF x.tag = "Err" THEN x
            ELSE Parsed(primary(Printable[src[at + 1] - 31], x.v, at), x.i)
    IN  IF Cursor_parse(src, at, CharP(CodePoint("("))).tag = "Ok"
        THEN opened(skip_comments(src, at + 1))
        ELSE IF Cursor_parse(src, at, peek(FnP({CodePoint(c) : c \in identifier_start_char}))).tag
                    = "Ok"
        THEN token(parse_identifier(src, at))
        ELSE IF Cursor_parse(src, at, peek(RangeP(48, 57))).tag = "Ok"
        THEN token(parse_number(src, at))
        ELSE Err(at, <<"expected an expression">>)

\* parse_expression, the loop `while let Ok(_) = cursor.parse(not(')'))`
\* over the arguments of a call suffix, arguments being those pushed so far
RECURSIVE parse_arguments(_, _, _)
parse_arguments(src, at, arguments) ==
    LET continued(argument, sk) ==
            IF sk.tag = "Err" THEN sk
            ELSE parse_arguments(src, sk.i, Append(arguments, argument.v))
        separated(argument, comma) ==
            IF comma.tag = "Ok" THEN continued(argument, skip_comments(src, comma.i))
            ELSE Parsed(Append(arguments, argument.v), argument.i)
        pushed(argument) ==
            IF argument.tag = "Err" THEN argument
            ELSE separated(argument, Cursor_parse(src, argument.i, CharP(CodePoint(","))))
    IN  IF Cursor_parse(src, at, not(CharP(CodePoint(")")))).tag = "Ok"
        THEN pushed(Skipped(src, parse_expression(src, at, 0)))
        ELSE Parsed(arguments, at)

\* parse_expression, the loop `while let Ok(_) = cursor.parse('(')` over the
\* call suffixes: the arguments are parsed and dropped (`// TODO: call`) and
\* the expression stays what it was
RECURSIVE parse_call_suffixes(_, _)
parse_call_suffixes(src, expression) ==
    LET after(sk) ==
            IF sk.tag = "Err" THEN sk ELSE parse_call_suffixes(src, Parsed(expression.v, sk.i))
        closed(close) == IF close.tag = "Err" THEN close ELSE after(skip_comments(src, close.i))
        listed(arguments) ==
            IF arguments.tag = "Err" THEN arguments
            ELSE closed(Cursor_parse(src, arguments.i, CharP(CodePoint(")"))))
        opened(sk) == IF sk.tag = "Err" THEN sk ELSE listed(parse_arguments(src, sk.i, <<>>))
    IN  IF Cursor_parse(src, expression.i, CharP(CodePoint("("))).tag = "Ok"
        THEN opened(skip_comments(src, expression.i + 1))
        ELSE expression

\* fn parse_expression
parse_expression(src, at, level) ==
    LET suffixed(expression) ==
            IF expression.tag = "Err" THEN expression ELSE parse_call_suffixes(src, expression)
        binary(left) ==
            IF left.tag = "Err" THEN left
            ELSE IF OPERATORS[level + 1].level = "BinaryLeftToRight"
            THEN left_to_right(src, level, OPERATORS[level + 1].operators, left)
            ELSE IF OPERATORS[level + 1].level = "BinaryRightToLeft"
            THEN right_to_left(src, level, OPERATORS[level + 1].operators, left)
            ELSE unary_postfix(src, OPERATORS[level + 1].operators, left)
    IN  IF level >= Len(OPERATORS) THEN suffixed(Skipped(src, parse_primary(src, at)))
        ELSE IF OPERATORS[level + 1].level = "UnaryPrefix"
        THEN unary_prefix(src, at, level, OPERATORS[level + 1].operators)
        ELSE binary(Skipped(src, parse_expression(src, at, level + 1)))

(***************************************************************************)
(* The expression printer of codegen/js.rs.  What is written is a byte     *)
(* string; Name and Number write the text the node holds.                  *)
(***************************************************************************)
\* CommaSeparated::fmt, from the n-th item on
RECURSIVE comma_separated(_, _)
comma_separated(items, n) ==
    IF n > Len(items) THEN <<>>
    ELSE (IF n = 1 THEN <<>> ELSE Lit(<<",", " ">>)) \o items[n] \o comma_separated(items, n + 1)

\* DisplayExpression::fmt, the `match e.operation` of the three binary forms
operation_text(operation) ==
    CASE operation = "Add" -> Lit(<<"+">>)
      [] operation = "Subtract" -> Lit(<<"-">>)
      [] operation = "Multiply" -> Lit(<<"*">>)
      [] operation = "Divide" -> Lit(<<"/">>)
      [] operation = "Remainder" -> Lit(<<"%">>)
      [] operation = "Equal" -> Lit(<<"=", "=", "=">>)
      [] operation = "NotEqual" -> Lit(<<"!", "=", "=">>)
      [] operation = "LessThan" -> Lit(<<"<">>)
      [] operation = "LessThanOrEqual" -> Lit(<<"<", "=">>)
      [] operation = "GreaterThan" -> Lit(<<">">>)
      [] operation = "GreaterThanOrEqual" -> Lit(<<">", "=">>)
      [] operation = "And" -> Lit(<<"&", "&">>)
      [] operation = "Or" -> Lit(<<"|", "|">>)

\* a binary form written without its parentheses
binary_text_bare(left, operation, right) ==
    left \o Lit(<<" ">>) \o operation \o Lit(<<" ">>) \o right

\* DisplayExpression::fmt: write!(f, "({} {} {})", left, operation, right)
binary_text(left, operation, right) ==
    Lit(<<"(">>) \o left \o Lit(<<" ">>) \o operation \o Lit(<<" ">>) \o right \o Lit(<<")">>)

\* impl Display for DisplayExpression
RECURSIVE DisplayExpression(_)
DisplayExpression(e) ==
    LET arguments == comma_separated([n \in 1..Len(e.arguments) |-> DisplayExpression(e.arguments[n])], 1)
    IN  CASE e.kind \in {"Number", "Name"} -> e.s
          [] e.kind \in {"ArithmeticExpression", "RelationalExpression", "LogicalExpression"} ->
                binary_text(DisplayExpression(e.left), operation_text(e.operation),
                            DisplayExpression(e.right))
          [] e.kind = "Not" -> Lit(<<"!">>) \o DisplayExpression(e.expression)
          [] e.kind = "Assign" ->
                binary_text(DisplayExpression(e.name), Lit(<<"=">>), DisplayExpression(e.expression))
          [] e.kind = "Call" ->
                DisplayExpression(e.function) \o Lit(<<"(">>) \o arguments \o Lit(<<")">>)
          [] e.kind = "ClassInstantiation" ->
                Lit(<<"n", "e", "w", " ">>) \o e.class \o Lit(<<"(">>) \o arguments \o Lit(<<")">>)
          [] e.kind = "PropertyAccess" -> DisplayExpression(e.object) \o Lit(<<".">>) \o e.property
          [] e.kind = "MethodCall" ->
                DisplayExpression(e.object) \o Lit(<<".">>) \o e.method
                    \o Lit(<<"(">>) \o arguments \o Lit(<<")">>)
          [] e.kind = "This" -> Lit(<<"t", "h", "i", "s">>)

(***************************************************************************)
(* The texts parse_expression is given and the expressions the generator   *)
(* is given.                                                               *)
(***************************************************************************)
\* most operators in a source text and most binary nodes in an expression
MaxOperators == 2

\* most call suffixes after a primary
MaxSuffixes == 2

\* the spellings of the binary operators of the language
Spellings ==
    {<<"=">>, <<"|", "|">>, <<"&", "&">>, <<"=", "=">>, <<"!", "=">>, <<"<", "=">>, <<"<">>,
     <<">", "=">>, <<">">>, <<"+">>, <<"-">>, <<"*">>, <<"/">>, <<"%">>}

\* the n-th operand of a chain: a, 1, b2, 34, ...
Operand(n) == (<<<<"a">>, <<"1">>, <<"b", "2">>, <<"3", "4">>, <<"c">>>>)[((n - 1) % 5) + 1]

\* the texts parse_expression is called on
ExpressionSources ==
    LET RECURSIVE Chains(_)
        Chains(n) ==
            IF n = 0 THEN {Operand(1)}
            ELSE {c \o sp \o o \o sp \o Operand(n + 1) :
                    c \in Chains(n - 1), o \in Spellings, sp \in {<<>>, <<" ">>}}
        Suffix == {<<"(", ")">>, <<"(", "1", ")">>, <<"(", "1", ",", "a", ")">>, <<"(", "1", ",", ")">>,
                   <<"(", " ", "1", " ", ",", " ", ")", " ">>, <<"(", ",", ")">>,
                   <<"(", "1", " ", "a", ")">>, <<"(", "a", "+", "1", ",", ")">>}
        RECURSIVE Suffixes(_)
        Suffixes(n) ==
            IF n = 0 THEN {<<>>} ELSE {ss \o su : ss \in Suffixes(n - 1), su \in Suffix}
        Grouped ==
            {<<"(">> \o Operand(1) \o o1 \o Operand(2) \o <<")">> \o o2 \o Operand(3) :
                o1 \in Spellings, o2 \in Spellings}
            \cup {Operand(1) \o o1 \o <<"(">> \o Operand(2) \o o2 \o Operand(3) \o <<")">> :
                o1 \in Spellings, o2 \in Spellings}
        Others ==
            {<<>>, <<"!", "a">>, <<"!", "!", "a">>, <<"a", "&", "&", "!", "b">>, <<"(", "a">>,
             <<"a", "/", "*", "c", "*", "/", "+", "/", "/", "c">>, <<"a", "/", "*", "c">>,
             <<"1", "a">>, <<"_", "x", "9", " ", "-", " ", "0", "7">>, <<"+">>, <<"f", "(", "1">>,
             <<"1", " ", "+", " ", "2", " ", "*", " ", "3">>,
             <<"f", "(", "g", "(", "1", ")", ",", "2", ")">>,
             <<"f", "(", "1", ")", "+", "g", "(", "2", ",", ")">>}
    IN  {Lit(cs) : cs \in UNION {Chains(n) : n \in 0..MaxOperators}
                          \cup UNION {{<<"f">> \o ss : ss \in Suffixes(n)} : n \in 1..MaxSuffixes}
                          \cup Grouped \cup Others}

\* the expressions the generator is given, without locations: every binary
\* form over two leaves, the ways of nesting up to MaxOperators binary
\* nodes of four of the forms over the leaves a, 1, b2, ... in this order,
\* with and without a Not, and the other kinds of node
GeneratedExpressions ==
    LET Leaf(n) == primary(Operand(n)[1], Lit(Operand(n)), 0)
        Bare(e) == [e EXCEPT !.loc = None]
        Form(f, l, r) == Bare(marked(f, l, r, 0))
        Functions == {"add", "subtract", "multiply", "divide", "remainder", "equal", "not_equal",
                      "less_than", "less_than_or_equal", "greater_than", "greater_than_or_equal",
                      "and", "or", "assign"}
        RECURSIVE Nested(_, _)
        Nested(lo, hi) ==
            IF lo = hi THEN {Bare(Leaf(lo))}
            ELSE UNION {{Form(f, l, r) : f \in {"add", "multiply", "equal", "assign"},
                                         l \in Nested(lo, k), r \in Nested(k + 1, hi)} :
                        k \in lo..(hi - 1)}
        Plain == UNION {Nested(1, n + 1) : n \in 0..MaxOperators}
        a == Bare(Leaf(1))
        one == Bare(Leaf(2))
    IN  Plain \cup {Not(e, None) : e \in Plain}
        \cup {Form(f, Not(a, None), e) : f \in {"add", "assign"}, e \in Nested(2, 3)}
        \cup {Form(f, a, one) : f \in Functions}
        \cup {This(None), Name(Lit(<<"t", "h", "i", "s">>), None),
              Call(a, <<>>, None), Call(a, <<one>>, None), Call(a, <<one, a>>, None),
              Call(Call(a, <<one>>, None), <<a>>, None),
              ClassInstantiation(Lit(<<"C">>), <<one, a>>, None),
              PropertyAccess(a, Lit(<<"m">>), None),
              Call(PropertyAccess(a, Lit(<<"m">>), None), <<one>>, None),
              MethodCall(a, Lit(<<"m">>), <<one>>, None),
              MethodCall(This(None), Lit(<<"m">>), <<>>, None)}

(***************************************************************************)
(* An expression from its text to the text generated for it.               *)
(***************************************************************************)
\* a text for parse_expression, or an expression for the generator
CompilerInit ==
    \/ /\ source \in ExpressionSources
       /\ stage = "source"
       /\ parsed = <<>>
       /\ output = <<>>
    \/ /\ source = <<>>
       /\ stage = "parsed"
       /\ parsed \in {Parsed(e, 0) : e \in GeneratedExpressions}
       /\ output = <<>>

\* parse_statement: `let expression = parse_expression(cursor, 0)?`
ParseExpression ==
    /\ stage = "source"
    /\ parsed' = parse_expression(source, 0, 0)
    /\ stage' = "parsed"
    /\ UNCHANGED <<source, output, cursorVars, mapVars, checkerVars, rep>>

\* generate_statement: format_args!("{};", DisplayExpression(expression)),
\* up to the semicolon
GenerateExpression ==
    /\ stage = "parsed"
    /\ parsed.tag = "Ok"
    /\ output' = DisplayExpression(parsed.v)
    /\ stage' = "generated"
    /\ UNCHANGED <<source, parsed, cursorVars, mapVars, checkerVars, rep>>

(***************************************************************************)
(* fn type_check, one action per call of check_function, per `?` after it, *)
(* and per entry to and exit from the loop over a class's methods.         *)
(***************************************************************************)
Pending == [tag |-> "Pending", v |-> <<>>, i |-> 0, msg |-> <<>>]

\* the record of a call of check_function
CheckOf(function, before, r) ==
    [function |-> function, before |-> before, after |-> r.vars, res |-> r.res, log |-> r.log]

NoCheck == CheckOf(Function("", <<>>, TypeVoid, <<>>), <<>>, After(Ok(Unit), <<>>, <<>>))

\* type_check: `let mut context = Context { variables: ScopedHashMap::new(), program }`
CheckerInit ==
    /\ program \in Programs
    /\ pc = "functions"
    /\ fidx = 1
    /\ cidx = 1
    /\ midx = 1
    /\ variables = ScopedHashMap_new
    /\ checked = NoCheck
    /\ result = Pending

\* type_check: check_function(&mut context, function) for the next function
CheckFunction ==
    /\ pc = "functions"
    /\ fidx <= Len(program.functions)
    /\ \E body \in Bodies :
        LET function == [program.functions[fidx] EXCEPT !.statements = body]
            r == check_function(variables, program, function)
        IN  checked' = CheckOf(function, variables, r)
    /\ variables' = checked'.after
    /\ pc' = "function checked"
    /\ UNCHANGED <<program, fidx, cidx, midx, result, cursorVars, mapVars, compilerVars, rep>>

\* the loop over the functions without the `?`
PropagateFunction_unchecked ==
    /\ pc = "function checked"
    /\ pc' = "functions"
    /\ fidx' = fidx + 1
    /\ checked' = NoCheck
    /\ UNCHANGED <<program, cidx, midx, variables, result, cursorVars, mapVars, compilerVars, rep>>

\* type_check: the `?` after check_function, and the step of the loop
PropagateFunction ==
    /\ pc = "function checked"
    /\ IF checked.res.tag = "Err"
       THEN /\ pc' = "returned"
            /\ result' = checked.res
            /\ UNCHANGED <<fidx, checked>>
       ELSE /\ pc' = "functions"
            /\ fidx' = fidx + 1
            /\ checked' = NoCheck
            /\ UNCHANGED result
    /\ UNCHANGED <<program, cidx, midx, variables, cursorVars, mapVars, compilerVars, rep>>

\* check_class: push_scope and the binding of `this`, for the next class
EnterClass ==
    /\ pc = "functions"
    /\ fidx > Len(program.functions)
    /\ cidx <= Len(program.classes)
    /\ variables' = insert(push_scope(variables), "this", TypeClass(program.classes[cidx].name))
    /\ midx' = 1
    /\ pc' = "methods"
    /\ UNCHANGED <<program, fidx, cidx, checked, result, cursorVars, mapVars, compilerVars, rep>>

\* check_class: check_function(context, method) for the next method
CheckMethod ==
    /\ pc = "methods"
    /\ midx <= Len(program.classes[cidx].methods)
    /\ \E body \in Bodies :
        LET function == [program.classes[cidx].methods[midx] EXCEPT !.statements = body]
            r == check_function(variables, program, function)
        IN  checked' = CheckOf(function, variables, r)
    /\ variables' = checked'.after
    /\ pc' = "method checked"
    /\ UNCHANGED <<program, fidx, cidx, midx, result, cursorVars, mapVars, compilerVars, rep>>

\* check_class: the `?` after check_function (and the `?` after check_class
\* in type_check, which returns the same error), and the step of the loop
PropagateMethod ==
    /\ pc = "method checked"
    /\ IF checked.res.tag = "Err"
       THEN /\ pc' = "returned"
            /\ result' = checked.res
            /\ UNCHANGED <<midx, checked>>
       ELSE /\ pc' = "methods"
            /\ midx' = midx + 1
            /\ checked' = NoCheck
            /\ UNCHANGED result
    /\ UNCHANGED <<program, fidx, cidx, variables, cursorVars, mapVars, compilerVars, rep>>

\* check_class: pop_scope and Ok(()), and the step of the loop over classes
ExitClass ==
    /\ pc = "methods"
    /\ midx > Len(program.classes[cidx].methods)
    /\ variables' = pop_scope(variables)
    /\ cidx' = cidx + 1
    /\ pc' = "functions"
    /\ UNCHANGED <<program, fidx, midx, checked, result, cursorVars, mapVars, compilerVars, rep>>

\* type_check: Ok(()) after both loops
Finish ==
    /\ pc = "functions"
    /\ fidx > Len(program.functions)
    /\ cidx > Len(program.classes)
    /\ pc' = "returned"
    /\ result' = Ok(Unit)
    /\ UNCHANGED <<program, fidx, cidx, midx, variables, checked, cursorVars, mapVars, compilerVars, rep>>

(***************************************************************************)
(* The specifications.                                                     *)
(***************************************************************************)
CursorIdle ==
    /\ s = <<>>
    /\ i = 0
    /\ status = "idle"
    /\ last = Called("none", "none", 0, None, NoReturn)

MapIdle ==
    /\ scopes = <<>>
    /\ op = Did("none", "", "", None)

CheckerIdle ==
    /\ program = <<>>
    /\ pc = "idle"
    /\ fidx = 0
    /\ cidx = 0
    /\ midx = 0
    /\ variables = <<>>
    /\ checked = <<>>
    /\ result = <<>>

CompilerIdle ==
    /\ source = <<>>
    /\ stage = "idle"
    /\ parsed = <<>>
    /\ output = <<>>

\* no call of Repetition::parse is followed
RepetitionIdle == rep = [status |-> "idle"]

InitCursor == CursorInit /\ MapIdle /\ CheckerIdle /\ CompilerIdle /\ RepetitionIdle

NextCursor == CursorParse \/ CursorExpect

\* a Cursor over any source, given any sequence of parse and expect calls
SpecCursor == InitCursor /\ [][NextCursor]_vars

InitMap == MapInit /\ CursorIdle /\ CheckerIdle /\ CompilerIdle /\ RepetitionIdle

NextMap == MapPushScope \/ MapPopScope \/ MapInsert \/ MapGetLocal \/ MapGet

\* a ScopedHashMap given any sequence of its operations
SpecMap == InitMap /\ [][NextMap]_vars

InitCompiler == CompilerInit /\ CursorIdle /\ MapIdle /\ CheckerIdle /\ RepetitionIdle

InitRepetition == RepetitionInit /\ CursorIdle /\ MapIdle /\ CheckerIdle /\ CompilerIdle

NextRepetition == RepetitionStep

\* Repetition::parse over any source and any matcher, one iteration of its
\* loop at a time
SpecRepetition == InitRepetition /\ [][NextRepetition]_vars

NextCompiler == ParseExpression \/ GenerateExpression

\* parse_expression over any of the texts, and the generator over what it
\* returned or over any of the expressions
SpecCompiler == InitCompiler /\ [][NextCompiler]_vars

Init == CheckerInit /\ CursorIdle /\ MapIdle /\ CompilerIdle /\ RepetitionIdle

Next ==
    \/ CheckFunction
    \/ PropagateFunction
    \/ EnterClass
    \/ CheckMethod
    \/ PropagateMethod
    \/ ExitClass
    \/ Finish

\* type_check over any of the programs
Spec == Init /\ [][Next]_vars


(***************************************************************************)
(* The claims.                                                             *)
(***************************************************************************)

\* C1: after Cursor.parse(m) (and expect, which is parse of a literal)
\* succeeds, i is i before the call plus the length m reported on s[i..] and
\* the slice returned is exactly those bytes of s; after it fails, i is what
\* it was; parsing peek(m) or not(m) leaves i as it was, match or no match.
C1_ParseAdvancesByReportedLength ==
    last.call \in {"parse", "expect"} =>
        /\ last.reported.tag = "Some" =>
            /\ last.ret.tag = "Ok"
            /\ i = last.before + last.reported.v
            /\ last.call = "parse" =>
                last.ret.v = SubSeq(s, last.before + 1, last.before + last.reported.v)
        /\ last.reported.tag = "None" => (last.ret.tag = "Err" /\ i = last.before)
        /\ last.ret.tag = "Err" => i = last.before
        /\ last.top \in {"peek", "not"} => i = last.before

\* C1's case: a parse that matched two or more bytes from a non-zero offset
C1_Witness ==
    /\ last.call = "parse"
    /\ last.ret.tag = "Ok"
    /\ last.before > 0
    /\ last.reported.v >= 2

\* C2: from Cursor::new(s) on, over any sequence of parse and expect calls,
\* i never decreases from one call to the next and stays within 0..len(s).
C2_OffsetMonotonicAndBounded ==
    /\ i = 0
    /\ [][i' >= i /\ 0 <= i' /\ i' <= Len(s')]_vars

\* C2's case: the cursor reached the end of a source of two or more bytes in
\* more than one call, and a later call failed there
C2_Witness ==
    /\ Len(s) >= 2
    /\ i = Len(s)
    /\ last.before = Len(s)
    /\ last.ret.tag = "Err"

\* a function or method has been checked and type_check has not moved on
FunctionChecked == pc \in {"function checked", "method checked"}

\* the names a parameter list gives
Names(arguments) == {arguments[n][1] : n \in 1..Len(arguments)}

\* C3: the check of a function or method whose parameter list holds the same
\* name twice ends in an error; one that is accepted has distinct names.
C3_DuplicateParametersRejected ==
    (FunctionChecked /\ checked.res.tag = "Ok") =>
        Cardinality(Names(checked.function.arguments)) = Len(checked.function.arguments)

\* the returns of check_statement from a Block, in the log of the last check
BlockReturns ==
    {k \in 1..Len(checked.log) :
        checked.log[k].ev = "check_statement" /\ checked.log[k].st.kind = "Block"}

\* C4 as stated: the scope stack is as deep at the end of every function
\* check, Block check and class check as at its start, whether the check
\* returns Ok or an error.
C4_DepthRestoredOnEveryPath ==
    /\ FunctionChecked =>
        /\ Len(checked.after) = Len(checked.before)
        /\ \A k \in BlockReturns : Len(checked.log[k].after) = Len(checked.log[k].before)
    /\ pc = "returned" => Len(variables) = 1

\* C4 (amended): the scope stack is as deep at the end of a function check,
\* Block check or class check as at its start when the check returns Ok; when
\* it returns an error the scope it pushed is left on the stack, so that the
\* stack is deeper than at its start.
C4_DepthRestoredOnSuccess ==
    /\ FunctionChecked =>
        /\ checked.res.tag = "Ok" => Len(checked.after) = Len(checked.before)
        /\ checked.res.tag = "Err" => Len(checked.after) > Len(checked.before)
        /\ \A k \in BlockReturns :
            /\ checked.log[k].res.tag = "Ok" =>
                Len(checked.log[k].after) = Len(checked.log[k].before)
            /\ checked.log[k].res.tag = "Err" =>
                Len(checked.log[k].after) > Len(checked.log[k].before)
    /\ pc = "functions" => Len(variables) = 1
    /\ pc = "methods" => Len(variables) = 2
    /\ pc = "returned" => (result.tag = "Ok" <=> Len(variables) = 1)

\* C4's case: a method check that failed inside a Block, which leaves the
\* scopes of the Block, of the method and of the class on the stack
C4_Witness ==
    /\ pc = "returned"
    /\ result.tag = "Err"
    /\ Len(variables) = 4
    /\ \E k \in BlockReturns : checked.log[k].res.tag = "Err"

\* the keys scope n of sc binds
Bound(sc, n) == DOMAIN sc[n]

\* the scopes of sc that bind k
Binders(sc, k) == {n \in 1..Len(sc) : k \in Bound(sc, n)}

Innermost(ns) == CHOOSE n \in ns : \A m \in ns : m <= n

\* C5: a ScopedHashMap starts as one empty scope; while it holds a scope,
\* insert(k, v) changes the innermost scope only, binding k to v there, and
\* returns what k was bound to in that scope (None when only outer scopes
\* bound it); get_local(k) is k's binding in the innermost scope; get(k) is
\* k's binding in the innermost scope that binds k, None when none does.
C5_ScopedLookup ==
    /\ Len(scopes) = 1 /\ Bound(scopes, 1) = {}
    /\ [][LET n == Len(scopes)
              k == op'.k
          IN  n >= 1 =>
                /\ op'.name = "insert" =>
                    /\ Len(scopes') = n
                    /\ \A j \in 1..(n - 1) : scopes'[j] = scopes[j]
                    /\ Bound(scopes', n) = Bound(scopes, n) \cup {k}
                    /\ scopes'[n][k] = op'.v
                    /\ \A x \in Bound(scopes, n) \ {k} : scopes'[n][x] = scopes[n][x]
                    /\ op'.ret = IF k \in Bound(scopes, n) THEN Some(scopes[n][k]) ELSE None
                /\ op'.name = "get_local" =>
                    op'.ret = IF k \in Bound(scopes, n) THEN Some(scopes[n][k]) ELSE None
                /\ op'.name = "get" =>
                    op'.ret = IF Binders(scopes, k) = {} THEN None
                              ELSE Some(scopes[Innermost(Binders(scopes, k))][k])
       ]_vars

\* C5's case: an insert of a key that only an outer scope bound
C5_Witness ==
    /\ op.name = "insert"
    /\ op.ret.tag = "None"
    /\ Len(scopes) = 2
    /\ op.k \in Bound(scopes, 1)
    /\ scopes[1][op.k] # scopes[2][op.k]

\* the offset an error at the expression e is given
Offset(e) == IF e.loc.tag = "Some" THEN e.loc.v ELSE 0

\* the returns of check_statement from a VariableDeclaration
DeclarationReturns ==
    {k \in 1..Len(checked.log) :
        checked.log[k].ev = "check_statement" /\ checked.log[k].st.kind = "VariableDeclaration"}

AlreadyDefined(d) ==
    d.res.tag = "Err" /\ d.res.msg = <<"variable \"", d.st.name, "\" already defined">>

\* what C6 says of the return d of one declaration, ty being the result of
\* checking its expression in the scopes the declaration was checked in
C6_Declaration(d, n, ty) ==
    /\ AlreadyDefined(d) <=> d.st.name \in Bound(d.before, n)
    /\ (n = Len(checked.before) + 1 /\ d.st.name \in Names(checked.function.arguments)) =>
        AlreadyDefined(d)
    /\ d.res.tag = "Err" => d.after = d.before
    /\ (d.st.name \notin Bound(d.before, n) /\ ty.tag = "Err") => d.res = ty
    /\ (d.st.name \notin Bound(d.before, n) /\ ty.tag = "Ok") =>
        /\ d.res.tag = "Ok"
        /\ Len(d.after) = n
        /\ \A j \in 1..(n - 1) : d.after[j] = d.before[j]
        /\ Bound(d.after, n) = Bound(d.before, n) \cup {d.st.name}
        /\ d.after[n][d.st.name] = ty.v
        /\ \A x \in Bound(d.before, n) : d.after[n][x] = d.before[n][x]

\* C6: a VariableDeclaration fails with `variable "name" already defined`
\* exactly when the innermost scope binds name, which a parameter does for a
\* declaration directly in the function body and an outer scope never does;
\* otherwise the expression is checked and, when it has a type, name is bound
\* to that type in the innermost scope; on an error no binding changes.
C6_DeclarationInInnermostScope ==
    \A k \in DeclarationReturns :
        C6_Declaration(checked.log[k], Len(checked.log[k].before),
                       check_expression(checked.log[k].before, program,
                                        checked.log[k].st.expression).res)

\* C6's case: a declaration in a Block of a name an outer scope binds was
\* accepted, and a later declaration of a parameter's name in the function
\* body was refused
C6_Witness ==
    \E j, k \in DeclarationReturns :
        /\ j < k
        /\ checked.log[j].res.tag = "Ok"
        /\ Binders(checked.log[j].before, checked.log[j].st.name) # {}
        /\ AlreadyDefined(checked.log[k])
        /\ checked.log[k].st.name \in Names(checked.function.arguments)

\* the calls of check_expression on a node of the kind, in the last check
EnteredOn(kind) ==
    {k \in 1..Len(checked.log) :
        checked.log[k].ev = "check_expression" /\ checked.log[k].e.kind = kind}

\* the functions of the program that have the name, by position
Declared(name) == {k \in 1..Len(program.functions) : program.functions[k].name = name}

\* the first of them, which is the one a call of the name is held against
Resolved(name) ==
    program.functions[CHOOSE k \in Declared(name) : \A j \in Declared(name) : k <= j]

\* the call c of check_expression is on a Call of a declared function with a
\* number of arguments other than the number of its parameters
WrongArity(c) ==
    /\ c.e.function.kind = "Name"
    /\ Declared(c.e.function.s) # {}
    /\ Len(c.e.arguments) # Len(Resolved(c.e.function.s).arguments)

\* what C7 says of the call c of check_expression, r being what it returned
C7_Call(c, r) ==
    WrongArity(c) =>
        /\ r.res = Err(Offset(c.e.function), <<"invalid number of arguments">>)
        /\ r.log = <<c>>
        /\ checked.res = r.res

\* C7: a Call of a declared function with fewer or more arguments than the
\* function has parameters fails with `invalid number of arguments` at the
\* offset recorded for the callee, no argument is checked before the error,
\* and the type check fails with that error.
C7_ArityErrorBeforeArguments ==
    \A k \in EnteredOn("Call") :
        C7_Call(checked.log[k],
                check_expression(checked.log[k].vars, program, checked.log[k].e))

\* C7's case: a call that gave arguments, in a wrong number
C7_Witness ==
    \E k \in EnteredOn("Call") :
        /\ WrongArity(checked.log[k])
        /\ Len(checked.log[k].e.arguments) >= 1
        /\ checked.res.msg = <<"invalid number of arguments">>

\* what C8 says of the call c of check_expression, r being its result
C8_Call(c, r) ==
    /\ c.e.function.kind # "Name" =>
        (r.tag = "Err" /\ r.msg = <<"left hand of a call must be a name">>)
    /\ (c.e.function.kind = "Name" /\ Declared(c.e.function.s) = {}) =>
        r = Err(Offset(c.e.function), <<"undefined function \"", c.e.function.s, "\"">>)
    /\ r.tag = "Ok" =>
        /\ c.e.function.kind = "Name"
        /\ Declared(c.e.function.s) # {}
        /\ r.v = Resolved(c.e.function.s).return_type

\* C8: a Call type-checks only if its callee is the name of a function the
\* program declares, before or after the caller, and then its type is that
\* function's return type; a callee Name of no function fails with
\* `undefined function "fn"` at the callee's offset, whatever the scopes
\* bind; a callee that is no Name fails with `left hand of a call must be a
\* name`.
C8_CalleeResolution ==
    \A k \in EnteredOn("Call") :
        C8_Call(checked.log[k],
                check_expression(checked.log[k].vars, program, checked.log[k].e).res)

\* C8's case: a call of a name that a live scope binds and no function has
C8_Witness ==
    \E k \in EnteredOn("Call") :
        /\ checked.log[k].e.function.kind = "Name"
        /\ Binders(checked.log[k].vars, checked.log[k].e.function.s) # {}
        /\ Declared(checked.log[k].e.function.s) = {}
        /\ checked.res.tag = "Err"
        /\ checked.res.i = Offset(checked.log[k].e.function)
        /\ checked.res.i > 0

\* the type the innermost scope of vs that binds name gives it
BoundType(vs, name) == vs[Innermost(Binders(vs, name))][name]

Mismatch(expected_ty, actual_ty) ==
    <<"type mismatch: expected a ">> \o Debug(expected_ty) \o <<" but found a ">> \o Debug(actual_ty)

\* what C9 says of a target that is no Name or is not bound
C9_Target(c, r) ==
    /\ c.e.name.kind # "Name" =>
        (r.tag = "Err" /\ r.msg = <<"left hand of an assignment must be a name">>)
    /\ (c.e.name.kind = "Name" /\ Binders(c.vars, c.e.name.s) = {}) =>
        (r.tag = "Err" /\ r.msg = <<"undefined variable \"", c.e.name.s, "\"">>)

\* the target of the Assign is a Name that a live scope binds
TargetBound(c) == c.e.name.kind = "Name" /\ Binders(c.vars, c.e.name.s) # {}

\* what C9 as stated says of a bound target of type T: v is the result of
\* checking the value, r the result of checking the Assign
C9_AsStated(c, r, v, T) ==
    /\ r.tag = "Ok" <=> (v.tag = "Ok" /\ v.v = T)
    /\ r.tag = "Ok" => r.v = T
    /\ ~(v.tag = "Ok" /\ v.v = T) =>
        /\ r.tag = "Err"
        /\ r.i = Offset(c.e.expression)
        /\ r.msg[1] = "type mismatch: expected a "

\* what C9 (amended) says of a bound target of type T
C9_Amended(c, r, v, T) ==
    /\ r.tag = "Ok" <=> (v.tag = "Ok" /\ v.v = T)
    /\ r.tag = "Ok" => r.v = T
    /\ (v.tag = "Ok" /\ v.v # T) => r = Err(Offset(c.e.expression), Mismatch(T, v.v))
    /\ v.tag = "Err" => r = v

\* the returns of check_statement from an expression statement on an Assign
AssignReturns ==
    {k \in 1..Len(checked.log) :
        /\ checked.log[k].ev = "check_statement"
        /\ checked.log[k].st.kind = "Expression"
        /\ checked.log[k].st.expression.kind = "Assign"}

\* C9 as stated: an Assign to a Name bound to T succeeds with type T exactly
\* when the value type-checks to T, and in every other case fails with a
\* type mismatch located at the value.
C9_MismatchWheneverNotT ==
    \A k \in EnteredOn("Assign") :
        TargetBound(checked.log[k]) =>
            C9_AsStated(checked.log[k],
                        check_expression(checked.log[k].vars, program, checked.log[k].e).res,
                        check_expression(checked.log[k].vars, program, checked.log[k].e.expression).res,
                        BoundType(checked.log[k].vars, checked.log[k].e.name.s))

\* C9 (amended): an Assign whose target is no Name fails with `left hand of
\* an assignment must be a name`; to a Name no live scope binds, with
\* `undefined variable "n"`; to a Name bound to T by the innermost scope that
\* binds it, it has type T exactly when the value type-checks to T, fails with
\* the type mismatch of T and U at the value when the value type-checks to
\* another type U, and fails with the value's own error when the value does
\* not type-check.  No binding of the scope stack changes.
C9_AssignAgainstBinding ==
    /\ \A k \in EnteredOn("Assign") :
        /\ C9_Target(checked.log[k],
                     check_expression(checked.log[k].vars, program, checked.log[k].e).res)
        /\ TargetBound(checked.log[k]) =>
            C9_Amended(checked.log[k],
                       check_expression(checked.log[k].vars, program, checked.log[k].e).res,
                       check_expression(checked.log[k].vars, program, checked.log[k].e.expression).res,
                       BoundType(checked.log[k].vars, checked.log[k].e.name.s))
    /\ \A k \in AssignReturns : checked.log[k].after = checked.log[k].before

\* C9's case: an Assign to a bound Name of a value that has another type
\* than the Name, refused at the value
C9_Witness ==
    \E k \in EnteredOn("Assign") :
        /\ TargetBound(checked.log[k])
        /\ checked.res.tag = "Err"
        /\ checked.res.i = Offset(checked.log[k].e.expression)
        /\ checked.res.msg = Mismatch(TypeNumber, TypeBoolean)

\* the function main of scenario 3 has been checked
Scenario3Checked ==
    /\ pc = "function checked"
    /\ checked.function.name = "main"
    /\ checked.function.arguments = <<>>
    /\ checked.function.statements = Scenario3

C11_This(c, r) ==
    /\ pc = "function checked" =>
        r = Err(Offset(c.e), <<"this is not available outside of a method">>)
    /\ pc = "method checked" => r = Ok(TypeClass(program.classes[cidx].name))

\* C11: the expression This type-checks to Class(c) exactly when it occurs in
\* the body of a method of class c, and in the body of every top-level
\* function it fails with `this is not available outside of a method`, for
\* every program, whatever the order and number of its functions and classes.
C11_ThisOnlyInMethods ==
    \A k \in EnteredOn("This") :
        C11_This(checked.log[k],
                 check_expression(checked.log[k].vars, program, checked.log[k].e).res)

(***************************************************************************)
(* Class instantiation.                                                    *)
(***************************************************************************)
\* the classes of the program that have the name, by position, and the
\* methods of the class cl named constructor
ClassesNamed(name) == {k \in 1..Len(program.classes) : program.classes[k].name = name}

Constructors(cl) == {k \in 1..Len(cl.methods) : cl.methods[k].name = "constructor"}

\* what the check of the argument a against the parameter type ty gives, res
\* being the result of check_expression on a: nothing to report, or an error
ArgumentAgainst(a, ty, res) ==
    IF res.tag = "Err" THEN res
    ELSE IF res.v # ty
    THEN Err(Offset(a), <<"invalid argument type: expected ">> \o Debug(ty)
                        \o <<" but found ">> \o Debug(res.v))
    ELSE Ok(Unit)

\* the arguments of the instantiation c.e, in order, against the parameters
\* of f
C12_Arguments(c, f) ==
    [j \in 1..Len(f.arguments) |->
        ArgumentAgainst(c.e.arguments[j], f.arguments[j][2],
                        check_expression(c.vars, program, c.e.arguments[j]).res)]

\* what C12 says when the class cl has the constructor f
C12_Constructed(c, r, f) ==
    IF Len(c.e.arguments) # Len(f.arguments)
    THEN r = Checked(Err(Offset(c.e), <<"invalid number of arguments">>), <<c>>)
    ELSE /\ \A j \in 1..Len(f.arguments) :
            (C12_Arguments(c, f)[j].tag = "Err"
                /\ \A h \in 1..(j - 1) : C12_Arguments(c, f)[h].tag = "Ok")
            => r.res = C12_Arguments(c, f)[j]
         /\ (\A j \in 1..Len(f.arguments) : C12_Arguments(c, f)[j].tag = "Ok")
            => r.res = Ok(TypeClass(c.e.class))

\* what C12 says of the call c of check_expression, r being what it returned
C12_Instantiation(c, r, cl) ==
    IF ClassesNamed(c.e.class) = {}
    THEN r.res = Err(Offset(c.e), <<"undefined class \"", c.e.class, "\"">>)
    ELSE IF Constructors(cl) # {}
    THEN C12_Constructed(c, r, cl.methods[CHOOSE k \in Constructors(cl) :
                                              \A j \in Constructors(cl) : k <= j])
    ELSE r.res = IF c.e.arguments = <<>> THEN Ok(TypeClass(c.e.class))
                 ELSE Err(Offset(c.e), <<"invalid number of arguments">>)

\* C12: ClassInstantiation{class, args} fails with `undefined class` if the
\* program declares no class of the name; if the class declares a method
\* named constructor, args are checked against its parameters, the count
\* first and then the type of each argument in order; if it declares no
\* constructor the check succeeds only when args is empty and otherwise
\* fails with `invalid number of arguments`; on success the type is
\* Class(class).
C12_ClassInstantiation ==
    \A k \in EnteredOn("ClassInstantiation") :
        C12_Instantiation(checked.log[k],
                          check_expression(checked.log[k].vars, program, checked.log[k].e),
                          IF ClassesNamed(checked.log[k].e.class) = {} THEN Class("", <<>>, <<>>)
                          ELSE program.classes[CHOOSE n \in ClassesNamed(checked.log[k].e.class) :
                                    \A j \in ClassesNamed(checked.log[k].e.class) : n <= j])

\* C12's case: the second argument of an instantiation of a class with a
\* constructor has the wrong type, the first having the right one
C12_Witness ==
    \E k \in EnteredOn("ClassInstantiation") :
        /\ ClassesNamed(checked.log[k].e.class) # {}
        /\ Len(checked.log[k].e.arguments) = 2
        /\ checked.res = Err(Offset(checked.log[k].e.arguments[2]),
                             <<"invalid argument type: expected ">> \o Debug(TypeBoolean)
                             \o <<" but found ">> \o Debug(TypeNumber))

(***************************************************************************)
(* The order of the checks and the first error.                            *)
(***************************************************************************)
\* the returns of the calls of check_statement that check_function made
\* itself, in order, among the first n entries of the log
RECURSIVE TopLevel(_, _)
TopLevel(log, n) ==
    IF n = 0 THEN <<>> ELSE Append(TopLevel(log, n - log[n].inside - 1), log[n])

\* the statements of a checked function were checked in order up to the
\* first that failed, top being the returns of their checks
C13_Statements(top, statements) ==
    /\ Len(top) <= Len(statements)
    /\ \A j \in 1..Len(top) :
        /\ top[j].st = statements[j]
        /\ j < Len(top) => top[j].res.tag = "Ok"
    /\ Len(top) < Len(statements) => (Len(top) >= 1 /\ top[Len(top)].res.tag = "Err")
    /\ checked.res = IF Len(top) >= 1 /\ top[Len(top)].res.tag = "Err"
                     THEN top[Len(top)].res ELSE Ok(Unit)

\* the call c of check_expression, the k-th entry of the log, returned r: if
\* it failed, nothing was checked after it and its error is the function's
C13_Node(k, r) ==
    r.res.tag = "Err" =>
        /\ checked.res = r.res
        /\ \A h \in (k + Len(r.log))..Len(checked.log) :
            checked.log[h].ev = "check_statement" /\ checked.log[h].res = r.res

\* where type_check is: in the functions before any class, in source order
C13_Position ==
    /\ pc = "function checked" =>
        /\ fidx <= Len(program.functions) /\ cidx = 1
        /\ checked.function.name = program.functions[fidx].name
    /\ pc \in {"methods", "method checked"} =>
        /\ fidx = Len(program.functions) + 1 /\ cidx <= Len(program.classes)
    /\ pc = "method checked" =>
        /\ midx <= Len(program.classes[cidx].methods)
        /\ checked.function.name = program.classes[cidx].methods[midx].name
    /\ result.tag = "Err" => (pc = "returned" /\ result = checked.res)
    /\ result.tag = "Ok" =>
        (pc = "returned" /\ fidx > Len(program.functions) /\ cidx > Len(program.classes))

\* a step of type_check: an error is returned at once, and the functions,
\* the classes and the methods of a class are taken one by one
C13_Step ==
    /\ checked.res.tag = "Err" => (pc' = "returned" /\ result' = checked.res)
    /\ fidx' # fidx => (fidx' = fidx + 1 /\ pc = "function checked" /\ cidx = 1)
    /\ cidx' # cidx =>
        /\ cidx' = cidx + 1 /\ fidx > Len(program.functions)
        /\ midx > Len(program.classes[cidx].methods)
    /\ midx' # midx => (midx' = midx + 1 /\ pc = "method checked") \/ (midx' = 1 /\ pc = "functions")
    /\ result' # result => pc' = "returned"

C13_Checked ==
    /\ C13_Position
    /\ C13_Statements(TopLevel(checked.log, Len(checked.log)), checked.function.statements)
    /\ \A k \in 1..Len(checked.log) :
        checked.log[k].ev = "check_expression" =>
            C13_Node(k, check_expression(checked.log[k].vars, program, checked.log[k].e))

\* C13: type_check visits all functions in source order and then all classes
\* in source order, the methods of a class in declaration order and the
\* statements of a function in order, stops at the first check that fails
\* and returns that error, nothing after the first failing node being
\* checked, and returns success when no check fails.
C13_FirstErrorStops == []C13_Checked /\ [][C13_Step]_vars

\* C13's case: the first of two functions failed in the first of its two
\* statements, on an operand of a binary expression, and type_check
\* returned that error
C13_Witness ==
    /\ pc = "returned"
    /\ result.tag = "Err"
    /\ fidx < Len(program.functions)
    /\ Len(checked.function.statements) = 2
    /\ Len(TopLevel(checked.log, Len(checked.log))) = 1
    /\ Len(checked.log) >= 3

(***************************************************************************)
(* Errors on nodes the location map has no entry for.                      *)
(***************************************************************************)
\* the call c of check_expression is on a node that fails at a node without
\* an entry: a Name no scope binds, or a Call of a Name no function has
Unlocated(c) ==
    \/ c.e.kind = "Name" /\ c.e.loc.tag = "None" /\ get(c.vars, c.e.s).tag = "None"
    \/ /\ c.e.kind = "Call" /\ c.e.function.kind = "Name"
       /\ c.e.function.loc.tag = "None" /\ Declared(c.e.function.s) = {}

\* what C14 says of the call c of check_expression, r being its result
C14_Node(c, r) ==
    Unlocated(c) =>
        /\ r.tag = "Err" /\ r.i = 0
        /\ r.msg = IF c.e.kind = "Name" THEN <<"undefined variable \"", c.e.s, "\"">>
                   ELSE <<"undefined function \"", c.e.function.s, "\"">>
        /\ checked.res = r

\* C14: an error reported for an expression node that has no entry in the
\* location map is still produced, with offset 0; building the error never
\* fails, whatever the location map holds.
C14_UnlocatedErrorAtZero ==
    /\ checked.res.tag \in {"Ok", "Err"}
    /\ \A k \in 1..Len(checked.log) :
        checked.log[k].ev = "check_expression" =>
            /\ check_expression(checked.log[k].vars, program, checked.log[k].e).res.tag
                    \in {"Ok", "Err"}
            /\ C14_Node(checked.log[k],
                        check_expression(checked.log[k].vars, program, checked.log[k].e).res)

\* C14's case: type_check returned the error of a node without an entry
C14_Witness ==
    /\ pc = "returned"
    /\ result.tag = "Err" /\ result.i = 0
    /\ \E k \in 1..Len(checked.log) :
        checked.log[k].ev = "check_expression" /\ Unlocated(checked.log[k])

(***************************************************************************)
(* The expression parser.                                                  *)
(***************************************************************************)
\* parse_expression has returned
Returned_parse == stage \in {"parsed", "generated"} /\ source # <<>>

\* the text has a `,` followed, after whitespace, by `)`
TrailingComma(src) ==
    \E k \in 1..Len(src) : \E j \in (k + 1)..Len(src) :
        /\ src[k] = CodePoint(",") /\ src[j] = CodePoint(")")
        /\ \A h \in (k + 1)..(j - 1) : src[h] = CodePoint(" ")

\* C15: an argument list in which a `,` is followed, after whitespace and
\* comments, by `)` is rejected with a parse error.
C15_TrailingCommaRejected ==
    (Returned_parse /\ TrailingComma(source)) => parsed.tag = "Err"

\* the text is a, the operator o and 1, with or without a space around o
Binary(o) == {Lit(Operand(1) \o sp \o o \o sp \o Operand(2)) : sp \in {<<>>, <<" ">>}}

\* the operation the spec gives the spelling o of a relational operator
Comparison(o) ==
    CASE o = <<"<">> -> "LessThan"
      [] o = <<"<", "=">> -> "LessThanOrEqual"
      [] o = <<">">> -> "GreaterThan"
      [] o = <<">", "=">> -> "GreaterThanOrEqual"

\* C16: the parser maps `>` to GreaterThan and `>=` to GreaterThanOrEqual, as
\* it maps `<` to LessThan and `<=` to LessThanOrEqual, and the generator
\* prints back the spelling that was parsed.
C16_GreaterSpellings ==
    \A o \in {<<"<">>, <<"<", "=">>, <<">">>, <<">", "=">>} :
        (Returned_parse /\ source \in Binary(o)) =>
            /\ parsed.tag = "Ok"
            /\ parsed.v.kind = "RelationalExpression"
            /\ parsed.v.operation = Comparison(o)
            /\ stage = "generated" =>
                    output = Lit(<<"(">> \o Operand(1) \o <<" ">> \o o \o <<" ">> \o Operand(2)
                                 \o <<")">>)

\* C17: the operator table has the levels of `||`, of `&&` and of prefix `!`
\* besides the five others: `a || 1` and `a && 1` parse to Logical(Or) and
\* Logical(And) nodes and `!a` to a Not node.
C17_LogicalLevels ==
    /\ \A o \in {<<"|", "|">>, <<"&", "&">>} :
        (Returned_parse /\ source \in Binary(o)) =>
            /\ parsed.tag = "Ok"
            /\ parsed.v.kind = "LogicalExpression"
            /\ parsed.v.operation = (IF o = <<"|", "|">> THEN "Or" ELSE "And")
            /\ parsed.i = Len(source)
    /\ (Returned_parse /\ source = Lit(<<"!", "a">>)) =>
            (parsed.tag = "Ok" /\ parsed.v.kind = "Not" /\ parsed.v.expression.kind = "Name")

\* C19: each call suffix wraps the expression parsed so far into a Call of
\* the parsed arguments, in order: `f(1)(1,a)` is Call{Call{f,[1]},[1,a]}.
C19_CallSuffixBuildsCall ==
    (Returned_parse /\ source = Lit(<<"f", "(", "1", ")", "(", "1", ",", "a", ")">>)) =>
        /\ parsed.tag = "Ok"
        /\ parsed.v.kind = "Call"
        /\ parsed.v.function.kind = "Call"
        /\ parsed.v.function.function.kind = "Name"
        /\ Len(parsed.v.function.arguments) = 1
        /\ Len(parsed.v.arguments) = 2
        /\ parsed.v.arguments[2].kind = "Name"

\* the bytes of identifiers and numbers
Alphanumeric == (48..57) \cup (65..90) \cup (97..122) \cup {95}

\* the number of alphanumeric bytes of src from offset at on
RECURSIVE Run(_, _)
Run(src, at) ==
    IF at < Len(src) /\ src[at + 1] \in Alphanumeric THEN 1 + Run(src, at + 1) ELSE 0

\* the tokens of a text and the offset each starts at: operands are runs of
\* alphanumeric bytes, operators take the longest spelling, spaces separate
RECURSIVE Lex(_, _)
Lex(src, at) ==
    LET token(n, operator) ==
            <<[text |-> SubSeq(src, at + 1, at + n), at |-> at, operator |-> operator]>>
                \o Lex(src, at + n)
        double == at + 2 <= Len(src) /\ SubSeq(src, at + 1, at + 2) \in {Lit(o) : o \in Spellings}
    IN  IF at >= Len(src) THEN <<>>
        ELSE IF src[at + 1] = CodePoint(" ") THEN Lex(src, at + 1)
        ELSE IF src[at + 1] \in Alphanumeric THEN token(Run(src, at), FALSE)
        ELSE token(IF double THEN 2 ELSE 1, TRUE)

\* the level of a spelling among the levels the parser has, lowest first
Level(spelling) ==
    CASE spelling = Lit(<<"=">>) -> 0
      [] spelling \in {Lit(<<"=", "=">>), Lit(<<"!", "=">>)} -> 1
      [] spelling \in {Lit(<<"<", "=">>), Lit(<<"<">>), Lit(<<">", "=">>), Lit(<<">">>)} -> 2
      [] spelling \in {Lit(<<"+">>), Lit(<<"-">>)} -> 3
      [] spelling \in {Lit(<<"*">>), Lit(<<"/">>), Lit(<<"%">>)} -> 4
      [] OTHER -> -1

\* operands and operators of the parser's levels in turn
IsChain(tokens) ==
    /\ Len(tokens) % 2 = 1
    /\ \A k \in 1..Len(tokens) :
        IF k % 2 = 1
        THEN /\ ~tokens[k].operator
             /\ tokens[k].text[1] \in 48..57 => \A n \in 1..Len(tokens[k].text) : tokens[k].text[n] \in 48..57
        ELSE tokens[k].operator /\ Level(tokens[k].text) >= 0

\* the operator applied last in tokens lo..hi: one of the lowest level,
\* the last of them for a left-to-right level, the first for `=`
Root(tokens, lo, hi) ==
    LET operators == {k \in lo..hi : tokens[k].operator}
        lowest == {k \in operators : \A h \in operators : Level(tokens[k].text) <= Level(tokens[h].text)}
        pick(level) ==
            IF level = 0 THEN CHOOSE k \in lowest : \A h \in lowest : k <= h
            ELSE CHOOSE k \in lowest : \A h \in lowest : k >= h
    IN  pick(Level(tokens[CHOOSE k \in lowest : TRUE].text))

\* the node e is one of the operator spelled o
Agrees(e, o) ==
    LET arithmetic(operation) == e.kind = "ArithmeticExpression" /\ e.operation = operation
        relational(operations) == e.kind = "RelationalExpression" /\ e.operation \in operations
    IN  CASE o = Lit(<<"=">>) -> e.kind = "Assign"
          [] o = Lit(<<"=", "=">>) -> relational({"Equal"})
          [] o = Lit(<<"!", "=">>) -> relational({"NotEqual"})
          [] o = Lit(<<"<", "=">>) -> relational({"LessThanOrEqual"})
          [] o = Lit(<<"<">>) -> relational({"LessThan"})
          [] o \in {Lit(<<">", "=">>), Lit(<<">">>)} -> relational({"GreaterThan", "GreaterThanOrEqual"})
          [] o = Lit(<<"+">>) -> arithmetic("Add")
          [] o = Lit(<<"-">>) -> arithmetic("Subtract")
          [] o = Lit(<<"*">>) -> arithmetic("Multiply")
          [] o = Lit(<<"/">>) -> arithmetic("Divide")
          [] o = Lit(<<"%">>) -> arithmetic("Remainder")

\* e is the tree of tokens lo..hi: its root is the operator applied last, at
\* the offset where that operator starts, over the trees of the two sides
RECURSIVE Groups(_, _, _, _)
Groups(e, tokens, lo, hi) ==
    LET sides(root) ==
            /\ Agrees(e, tokens[root].text)
            /\ e.loc = Some(tokens[root].at)
            /\ Groups(IF e.kind = "Assign" THEN e.name ELSE e.left, tokens, lo, root - 1)
            /\ Groups(IF e.kind = "Assign" THEN e.expression ELSE e.right, tokens, root + 1, hi)
    IN  IF lo = hi
        THEN e.kind \in {"Name", "Number"} /\ e.s = tokens[lo].text /\ e.loc = Some(tokens[lo].at)
        ELSE sides(Root(tokens, lo, hi))

\* the check of one parsed text
C18_Chain(tokens) ==
    (IsChain(tokens) /\ Len(tokens) >= 3) =>
        /\ parsed.tag = "Ok"
        /\ parsed.i = Len(source)
        /\ Groups(parsed.v, tokens, 1, Len(tokens))

\* C18: an operator of a higher level binds tighter, a chain of operators of
\* one left-to-right level folds to the left, `=` is right-associative, and
\* each binary node's location is the offset at which its operator starts.
C18_LevelsAndAssociativity == Returned_parse => C18_Chain(Lex(source, 0))

\* the node of an operator spelled o at the offset at
C18_At(e, o, at) == Agrees(e, Lit(o)) /\ e.loc = Some(at)

\* `1 + 2 * 3`, `a - 1 - b2` and `a = 1 = b2` are parsed
C18_Witness ==
    /\ stage = "parsed"
    /\ \/ /\ source = Lit(<<"1", " ", "+", " ", "2", " ", "*", " ", "3">>)
          /\ C18_At(parsed.v, <<"+">>, 2) /\ C18_At(parsed.v.right, <<"*">>, 6)
       \/ /\ source = Lit(<<"a", "-", "1", "-", "b", "2">>)
          /\ C18_At(parsed.v, <<"-">>, 3) /\ C18_At(parsed.v.left, <<"-">>, 1)
       \/ /\ source = Lit(<<"a", "=", "1", "=", "b", "2">>)
          /\ C18_At(parsed.v, <<"=">>, 1) /\ C18_At(parsed.v.expression, <<"=">>, 3)

(***************************************************************************)
(* The expression printer of the code generator.                           *)
(***************************************************************************)
\* the kinds printed as ( left op right )
Infix == {"ArithmeticExpression", "RelationalExpression", "LogicalExpression", "Assign"}

\* the kinds printed with the parentheses of an argument list
Applied == {"Call", "ClassInstantiation", "MethodCall"}

\* the sum of a sequence of numbers
RECURSIVE Sum(_)
Sum(numbers) == IF numbers = <<>> THEN 0 ELSE Head(numbers) + Sum(Tail(numbers))

\* the sequences of a sequence of sequences, one after the other
RECURSIVE Flatten(_)
Flatten(sequences) == IF sequences = <<>> THEN <<>> ELSE Head(sequences) \o Flatten(Tail(sequences))

\* the expressions directly below e, left to right
Children(e) ==
    CASE e.kind \in {"Number", "Name", "This"} -> <<>>
      [] e.kind = "Assign" -> <<e.name, e.expression>>
      [] e.kind = "Not" -> <<e.expression>>
      [] e.kind = "Call" -> <<e.function>> \o e.arguments
      [] e.kind = "ClassInstantiation" -> e.arguments
      [] e.kind = "PropertyAccess" -> <<e.object>>
      [] e.kind = "MethodCall" -> <<e.object>> \o e.arguments
      [] OTHER -> <<e.left, e.right>>

\* the number of nodes of e whose kind is in kinds
RECURSIVE Nodes(_, _)
Nodes(e, kinds) ==
    (IF e.kind \in kinds THEN 1 ELSE 0)
        + Sum([n \in 1..Len(Children(e)) |-> Nodes(Children(e)[n], kinds)])

\* the names and numbers e is built over, left to right
RECURSIVE LeavesOf(_)
LeavesOf(e) ==
    LET below == Flatten([n \in 1..Len(Children(e)) |-> LeavesOf(Children(e)[n])])
        leaf(kind, spelling) == <<[kind |-> kind, s |-> spelling]>>
    IN  CASE e.kind \in {"Number", "Name"} -> leaf(e.kind, e.s)
          [] e.kind = "This" -> leaf("This", <<>>)
          [] e.kind = "ClassInstantiation" -> leaf("Name", e.class) \o below
          [] e.kind = "PropertyAccess" -> below \o leaf("Name", e.property)
          [] e.kind = "MethodCall" ->
                LeavesOf(e.object) \o leaf("Name", e.method)
                    \o Flatten([n \in 1..Len(e.arguments) |-> LeavesOf(e.arguments[n])])
          [] OTHER -> below

\* e without the locations of its nodes
RECURSIVE Strip(_)
Strip(e) ==
    LET arguments == [n \in 1..Len(e.arguments) |-> Strip(e.arguments[n])]
    IN  CASE e.kind \in {"Number", "Name", "This"} -> [e EXCEPT !.loc = None]
          [] e.kind = "Assign" ->
                [e EXCEPT !.loc = None, !.name = Strip(e.name), !.expression = Strip(e.expression)]
          [] e.kind = "Not" -> [e EXCEPT !.loc = None, !.expression = Strip(e.expression)]
          [] e.kind = "Call" ->
                [e EXCEPT !.loc = None, !.function = Strip(e.function), !.arguments = arguments]
          [] e.kind = "ClassInstantiation" -> [e EXCEPT !.loc = None, !.arguments = arguments]
          [] e.kind = "PropertyAccess" -> [e EXCEPT !.loc = None, !.object = Strip(e.object)]
          [] e.kind = "MethodCall" ->
                [e EXCEPT !.loc = None, !.object = Strip(e.object), !.arguments = arguments]
          [] OTHER -> [e EXCEPT !.loc = None, !.left = Strip(e.left), !.right = Strip(e.right)]

\* e has only names, numbers, infix forms and Not
RECURSIVE OperatorTree(_)
OperatorTree(e) ==
    /\ e.kind \in {"Number", "Name", "Not"} \cup Infix
    /\ \A n \in 1..Len(Children(e)) : OperatorTree(Children(e)[n])

\* the number of bytes c in text
Count(bytes, c) == Cardinality({n \in 1..Len(bytes) : bytes[n] = c})

\* the spelling the generated text has for the operator of an infix node
Spelled(e) ==
    IF e.kind = "Assign" THEN <<"=">>
    ELSE CASE e.operation = "Equal" -> <<"=", "=", "=">>
           [] e.operation = "NotEqual" -> <<"!", "=", "=">>
           [] e.operation = "Add" -> <<"+">>
           [] e.operation = "Subtract" -> <<"-">>
           [] e.operation = "Multiply" -> <<"*">>
           [] e.operation = "Divide" -> <<"/">>
           [] e.operation = "Remainder" -> <<"%">>
           [] e.operation = "LessThan" -> <<"<">>
           [] e.operation = "LessThanOrEqual" -> <<"<", "=">>
           [] e.operation = "GreaterThan" -> <<">">>
           [] e.operation = "GreaterThanOrEqual" -> <<">", "=">>
           [] e.operation = "And" -> <<"&", "&">>
           [] e.operation = "Or" -> <<"|", "|">>

\* the expression e was printed as the text out
C20_Printed(e, out) ==
    /\ e.kind \in Infix =>
            out = Lit(<<"(">>) \o DisplayExpression(Children(e)[1])
                    \o Lit(<<" ">> \o Spelled(e) \o <<" ">>)
                    \o DisplayExpression(Children(e)[2]) \o Lit(<<")">>)
    /\ e.kind = "Not" => out = Lit(<<"!">>) \o DisplayExpression(e.expression)
    /\ Count(out, CodePoint("(")) = Nodes(e, Infix) + Nodes(e, Applied)
    /\ Count(out, CodePoint(")")) = Nodes(e, Infix) + Nodes(e, Applied)
    /\ source = Lit(<<"1", " ", "+", " ", "2", " ", "*", " ", "3">>) =>
            out = Lit(<<"(", "1", " ", "+", " ", "(", "2", " ", "*", " ", "3", ")", ")">>)

\* the expressions the generator is given, each with its leaves and with
\* the text it is printed as
Printings ==
    {[e |-> e, leaves |-> LeavesOf(e), out |-> DisplayExpression(e), operators |-> OperatorTree(e)] :
        e \in GeneratedExpressions}

\* no other expression of trees over the leaves of e is printed as out
C20_Distinct(e, leaves, out, trees) ==
    \A other \in trees : (other.e # e /\ other.leaves = leaves) => other.out # out

\* C20, as the spec has it: every Arithmetic, Relational, Logical and Assign
\* node is printed as ( left op right ) with one pair of parentheses, Not as
\* ! and the inner expression, Equal as === and NotEqual as !==, and two
\* different expression trees over the same leaves never print to the same
\* text.
C20_AllTreesDistinct ==
    stage = "generated" =>
        /\ C20_Printed(parsed.v, output)
        /\ C20_Distinct(Strip(parsed.v), LeavesOf(parsed.v), output, Printings)

\* C20, amended: the same, with the last part for the trees of names,
\* numbers, Arithmetic, Relational, Logical, Assign and Not nodes: two
\* different such trees over the same leaves never print to the same text.
C20_OperatorTreesDistinct ==
    stage = "generated" =>
        /\ C20_Printed(parsed.v, output)
        /\ OperatorTree(parsed.v) =>
                C20_Distinct(Strip(parsed.v), LeavesOf(parsed.v), output,
                             {other \in Printings : other.operators})

\* Add(a, Multiply(1, b2)) was printed, and Multiply(Add(a, 1), b2) is another
\* tree over its leaves
C20_Witness ==
    /\ stage = "generated"
    /\ parsed.v.kind = "ArithmeticExpression" /\ parsed.v.operation = "Add"
    /\ parsed.v.right.kind = "ArithmeticExpression" /\ parsed.v.right.operation = "Multiply"
    /\ output = Lit(<<"(", "a", " ", "+", " ", "(", "1", " ", "*", " ", "b", "2", ")", ")">>)
    /\ \E other \in GeneratedExpressions :
        /\ other # Strip(parsed.v) /\ LeavesOf(other) = LeavesOf(parsed.v)
        /\ other.kind = "ArithmeticExpression" /\ other.operation = "Multiply"

(***************************************************************************)
(* The loop of Repetition::parse.                                          *)
(***************************************************************************)
\* the loop is about to evaluate a match of length 0
Stalled == rep.status = "looping" /\ Parser_parse(rep.m, rep.s) = Some(0)

\* the call has not returned and is where it was when it was entered or
\* when it last made progress
C21_Looping == rep.status = "looping" /\ rep.ret = None

\* what holds of every state of a call of Repetition::parse
C21_Progress ==
    \* it returns only after matches that each consumed at least one byte
    /\ rep.status = "returned" =>
            /\ rep.sum >= rep.done - 1
            /\ rep.ret = Some(Len(rep.given) - Len(rep.s))
            /\ Repetition_parse(rep.m, rep.given, 0) = rep.ret
    \* a loop followed to the last iteration is one that makes no progress
    /\ (rep.status = "looping" /\ rep.done = MaxIterations) => Stalled
    /\ (Stalled \/ rep.status = "hung") => Repetition_parse(rep.m, rep.given, 0) = Diverges
    \* optional(x) and the empty literal match everywhere
    /\ (rep.m.k = "optional" \/ rep.m = StrP(<<>>)) => rep.status # "returned"
    \* not(x) and peek(x) match with length 0 or not at all
    /\ (rep.m.k \in {"not", "peek"} /\ rep.status = "returned") => (rep.done = 1 /\ rep.sum = 0)

\* C21: repeat(m) returns only when every successful match of m consumes at
\* least one byte; once m matches with length 0 the loop makes no progress
\* on the remaining input and the call never returns.
C21_RepeatNeverReturns == []C21_Progress /\ [](Stalled => []C21_Looping)

\* repeat(optional(x)) consumed what x matches and then stalled, up to the
\* last iteration followed
C21_Witness ==
    /\ Stalled
    /\ rep.m.k = "optional"
    /\ rep.sum > 0
    /\ rep.done = MaxIterations

(***************************************************************************)
(* The scope stack while type_check runs.                                  *)
(***************************************************************************)
\* the names the statement declares, in whatever scope
RECURSIVE Declares(_)
Declares(st) ==
    CASE st.kind = "VariableDeclaration" -> {st.name}
      [] st.kind = "Block" -> UNION {Declares(st.statements[n]) : n \in 1..Len(st.statements)}
      [] st.kind = "If" ->
            Declares(st.statement)
                \cup (IF st.else_statement.tag = "Some" THEN Declares(st.else_statement.v) ELSE {})
      [] st.kind = "While" -> Declares(st.statement)
      [] OTHER -> {}

\* the scope stacks of the last function or method check: the one it was
\* given, those its calls of check_expression and check_statement were given
\* and those they left, and the one it left
Stacks ==
    {variables}
    \cup (IF FunctionChecked
          THEN {checked.before, checked.after}
               \cup {checked.log[k].vars : k \in {n \in 1..Len(checked.log) :
                                                    checked.log[n].ev = "check_expression"}}
               \cup UNION {{checked.log[k].before, checked.log[k].after} :
                              k \in {n \in 1..Len(checked.log) : checked.log[n].ev = "check_statement"}}
          ELSE {})

\* the stack when a function, or a method of the class, starts being checked
Outside(class) ==
    IF class = "" THEN <<HashMap_new>>
    ELSE <<HashMap_new, [name \in {"this"} |-> TypeClass(class)]>>

\* the last check was given the stack base and saw, above it, only the
\* parameters and the variables of the function checked
C22_Own(base) ==
    /\ checked.before = base
    /\ \A sc \in Stacks :
        /\ Len(sc) >= Len(base)
        /\ SubSeq(sc, 1, Len(base)) = base
        /\ \A n \in (Len(base) + 1)..Len(sc) :
            Bound(sc, n) \subseteq
                Names(checked.function.arguments)
                    \cup UNION {Declares(checked.function.statements[k]) :
                                 k \in 1..Len(checked.function.statements)}

\* C22: while type_check runs the scope stack holds at least one scope and
\* the outermost scope stays empty; the check of a top-level function starts
\* with exactly one empty scope, and no parameter or variable of one function
\* or method is visible while another is checked.
C22_OutermostScopeEmpty ==
    pc # "idle" =>
        /\ \A sc \in Stacks : Len(sc) >= 1 /\ Bound(sc, 1) = {}
        /\ pc = "functions" => variables = <<HashMap_new>>
        /\ pc = "methods" => variables = Outside(program.classes[cidx].name)
        /\ pc = "function checked" => C22_Own(Outside(""))
        /\ pc = "method checked" => C22_Own(Outside(program.classes[cidx].name))

\* the second function is checked after a first one that has a parameter x;
\* its body declares a variable and then finds x undefined
C22_Witness ==
    /\ pc = "function checked"
    /\ fidx = 2
    /\ Names(program.functions[1].arguments) = {"x"}
    /\ checked.before = <<HashMap_new>>
    /\ Len(checked.function.statements) = 2
    /\ checked.function.statements[1].kind = "VariableDeclaration"
    /\ checked.res.tag = "Err"
    /\ checked.res.msg = <<"undefined variable \"", "x", "\"">>

(***************************************************************************)
(* The scopes of statements.                                               *)
(***************************************************************************)
\* the returns of the calls of check_statement made directly by the call
\* whose log entries are lo..n, in order
RECURSIVE Direct(_, _, _)
Direct(log, lo, n) ==
    IF n < lo THEN <<>>
    ELSE IF log[n].ev = "check_expression" THEN Direct(log, lo, n - 1)
    ELSE Append(Direct(log, lo, n - log[n].inside - 1), log[n])

\* sc with name bound in its innermost scope, the other bindings and scopes
\* as in before
DeclaredIn(sc, before, name) ==
    /\ Len(sc) = Len(before)
    /\ \A n \in 1..(Len(sc) - 1) : sc[n] = before[n]
    /\ Bound(sc, Len(sc)) = Bound(before, Len(before)) \cup {name}
    /\ \A k \in Bound(before, Len(before)) \ {name} : sc[Len(sc)][k] = before[Len(before)][k]

\* what C23 says of the return r of a statement check that made the calls
\* inner of check_statement
C23_Statement(r, inner) ==
    \* the statements of a Block are checked one scope deeper, those under
    \* an If or a While in the scope of the If or While
    /\ \A j \in 1..Len(inner) :
        /\ Len(inner[j].before) = Len(r.before) + (IF r.st.kind = "Block" THEN 1 ELSE 0)
        /\ j > 1 => inner[j].before = inner[j - 1].after
    /\ r.res.tag = "Ok" =>
        \* nothing declared inside a Block is left
        /\ r.st.kind = "Block" => r.after = r.before
        \* a declaration directly under an If, an else or a While is left
        /\ (r.st.kind \in {"If", "While"} /\ r.st.statement.kind = "VariableDeclaration") =>
                DeclaredIn(inner[1].after, r.before, r.st.statement.name)
        /\ (r.st.kind = "If" /\ r.st.else_statement.tag = "Some"
                /\ r.st.else_statement.v.kind = "VariableDeclaration") =>
                DeclaredIn(r.after, inner[1].after, r.st.else_statement.v.name)
        /\ r.st.kind \in {"If", "While"} => r.after = inner[Len(inner)].after

\* the names the statement declares outside every Block
RECURSIVE Exposes(_)
Exposes(st) ==
    CASE st.kind = "VariableDeclaration" -> {st.name}
      [] st.kind = "If" ->
            Exposes(st.statement)
                \cup (IF st.else_statement.tag = "Some" THEN Exposes(st.else_statement.v) ELSE {})
      [] st.kind = "While" -> Exposes(st.statement)
      [] OTHER -> {}

\* what C23 says of a statement and the one that follows it: a declaration
\* that follows is rejected when the scope bound the name already or the
\* statement declared it outside every Block, and only then
C23_Following(first, second) ==
    /\ second.before = first.after
    /\ second.st.kind = "VariableDeclaration" =>
        (AlreadyDefined(second) <=>
            second.st.name \in Exposes(first.st) \cup Bound(first.before, Len(first.before)))

\* C23: only a Block opens a scope for statements: a name declared inside a
\* Block is not visible to the statements that follow the Block, and one
\* declared directly under an If, an else or a While is bound in the
\* enclosing scope, visible to the statements that follow, where declaring
\* it again is rejected as already defined.
C23_OnlyBlockOpensScope ==
    FunctionChecked =>
        /\ \A k \in 1..Len(checked.log) :
            checked.log[k].ev = "check_statement" =>
                C23_Statement(checked.log[k],
                              Direct(checked.log, k - checked.log[k].inside, k - 1))
        /\ LET top == Direct(checked.log, 1, Len(checked.log))
           IN  \A j \in 1..(Len(top) - 1) : C23_Following(top[j], top[j + 1])

\* `while (..) let x = 1;` or `if (..) {} else let x = 1;` followed by a
\* declaration of x that is rejected
C23_Witness ==
    /\ FunctionChecked
    /\ Len(checked.function.statements) = 2
    /\ checked.function.arguments = <<>>
    /\ \/ checked.function.statements[1].kind = "While"
       \/ /\ checked.function.statements[1].kind = "If"
          /\ checked.function.statements[1].else_statement.tag = "Some"
    /\ checked.function.statements[2].kind = "VariableDeclaration"
    /\ checked.res = Err(26, <<"variable \"", "x", "\" already defined">>)

=============================================================================
